---- MODULE Spec2Model ----
(***************************************************************************)
(* contacts2notion: the reconciliation engine (ContactSyncer), the record  *)
(* model (Contact) and the remote client's update request.                 *)
(*                                                                         *)
(* Strings are sequences of one-character strings, so that lower(),        *)
(* isdigit() and strip() are computed character by character.  Python's    *)
(* None is the one-element sequence <<"None">>, which no string equals     *)
(* (every element of a string is a single character).                      *)
(***************************************************************************)
EXTENDS Integers, Sequences, FiniteSets, TLC

(* ------------------------------------------------------------------ *)
(* Bounds of the model                                                 *)
(* ------------------------------------------------------------------ *)
MaxListing == 2     \* pages of a database listing in the index specification
MaxPages == 2       \* pages of the database at the start of a run
MaxContacts == 2    \* records of the remote address book
MaxPasses == 2      \* sync invocations in sequence
MaxFailures == 1    \* collaborator calls that fail in one run
\* the longest error list a reported pass may carry
MaxErrors == 6
\* the access tokens the token endpoint hands out in one run
MaxRefreshes == 3

(* ------------------------------------------------------------------ *)
(* Strings                                                             *)
(* ------------------------------------------------------------------ *)
None == <<"None">>
NoDate == [year |-> 0, month |-> 0, day |-> 0]
NoPage == 0

\* Python truthiness of a str | None value
Truthy(v) == v # None /\ v # <<>>

UPPER == <<"A","B","C","D","E","F","G","H","I","J","K","L","M",
           "N","O","P","Q","R","S","T","U","V","W","X","Y","Z">>
LOWER == <<"a","b","c","d","e","f","g","h","i","j","k","l","m",
           "n","o","p","q","r","s","t","u","v","w","x","y","z">>

LowerChar(c) ==
    IF \E k \in DOMAIN UPPER : UPPER[k] = c
    THEN LOWER[CHOOSE k \in DOMAIN UPPER : UPPER[k] = c]
    ELSE c

\* a lower() that leaves every character as it is
Lower_Identity(s) == s

\* str.lower()
Lower(s) == [k \in DOMAIN s |-> LowerChar(s[k])]

IsDigit(c) == c \in {"0","1","2","3","4","5","6","7","8","9"}

\* a normalisation that keeps every character of the phone
Digits_KeepAll(s) == s

\* "".join(c for c in s if c.isdigit())
Digits(s) == SelectSeq(s, IsDigit)

IsSpace(c) == c \in {" ", "\t", "\n"}

RECURSIVE LStrip(_)
LStrip(s) == IF s # <<>> /\ IsSpace(Head(s)) THEN LStrip(Tail(s)) ELSE s

RECURSIVE RStrip(_)
RStrip(s) ==
    IF s # <<>> /\ IsSpace(s[Len(s)]) THEN RStrip(SubSeq(s, 1, Len(s) - 1)) ELSE s

\* str.strip()
Strip(s) == RStrip(LStrip(s))

\* f"{first.lower()} {last.lower()}".strip()
NameKey(first, last) == Strip(Lower(first) \o <<" ">> \o Lower(last))

(* ------------------------------------------------------------------ *)
(* Dates: datetime.date(year, month, day) raises ValueError on a date  *)
(* that does not exist                                                 *)
(* ------------------------------------------------------------------ *)
IsLeap(y) == (y % 4 = 0 /\ y % 100 # 0) \/ y % 400 = 0

DaysInMonth(y, m) ==
    IF m = 2 THEN (IF IsLeap(y) THEN 29 ELSE 28)
    ELSE IF m \in {4, 6, 9, 11} THEN 30 ELSE 31

ValidDate(y, m, d) ==
    /\ y \in 1..9999
    /\ m \in 1..12
    /\ d \in 1..DaysInMonth(y, m)

(* ------------------------------------------------------------------ *)
(* The canonical record (models.Contact) with its field defaults       *)
(* ------------------------------------------------------------------ *)
Contact(gid, first, last) ==
    [google_id |-> gid, first_name |-> first, last_name |-> last,
     company |-> None, title |-> None, department |-> None,
     primary_email |-> None, secondary_email |-> None,
     primary_phone |-> None, secondary_phone |-> None,
     birthday |-> NoDate, address |-> None, website |-> None,
     hide_birthday |-> FALSE, tags |-> <<>>, notes |-> None,
     last_contacted |-> NoDate]

\* SyncStats()
SyncStats == [created |-> 0, updated |-> 0, skipped |-> 0, errors |-> <<>>]

(* ------------------------------------------------------------------ *)
(* The remote service's person resource.  A key the resource does not  *)
(* hold is the empty list (person.get(key, []) reads it as one); a     *)
(* sub-key an entry does not hold is None, or 0 in a date.             *)
(* ------------------------------------------------------------------ *)
Person(rn) ==
    [resourceName |-> rn, names |-> <<>>, emailAddresses |-> <<>>,
     phoneNumbers |-> <<>>, birthdays |-> <<>>, organizations |-> <<>>,
     addresses |-> <<>>, urls |-> <<>>]

\* Contact.from_google_api
from_google_api(person) ==
    LET names == person.names
        emails == person.emailAddresses
        phones == person.phoneNumbers
        birthdays == person.birthdays
        orgs == person.organizations
        addresses == person.addresses
        urls == person.urls
        bd == IF birthdays # <<>> THEN birthdays[1].date ELSE NoDate
        year == IF bd.year = 0 THEN 1900 ELSE bd.year
        birthday_obj ==
            IF birthdays # <<>> /\ bd.month # 0 /\ bd.day # 0
               /\ ValidDate(year, bd.month, bd.day)
            THEN [year |-> year, month |-> bd.month, day |-> bd.day]
            ELSE NoDate
    IN  [google_id |-> person.resourceName,
         first_name |-> IF names # <<>> THEN names[1].givenName ELSE <<>>,
         last_name |-> IF names # <<>> THEN names[1].familyName ELSE <<>>,
         company |-> IF orgs # <<>> THEN orgs[1].name ELSE None,
         title |-> IF orgs # <<>> THEN orgs[1].title ELSE None,
         department |-> IF orgs # <<>> THEN orgs[1].department ELSE None,
         primary_email |-> IF Len(emails) > 0 THEN emails[1].value ELSE None,
         secondary_email |-> IF Len(emails) > 1 THEN emails[2].value ELSE None,
         primary_phone |-> IF Len(phones) > 0 THEN phones[1].value ELSE None,
         secondary_phone |-> IF Len(phones) > 1 THEN phones[2].value ELSE None,
         birthday |-> birthday_obj,
         address |-> IF addresses # <<>> THEN addresses[1].formattedValue ELSE None,
         website |-> IF urls # <<>> THEN urls[1].value ELSE None,
         hide_birthday |-> FALSE, tags |-> <<>>, notes |-> None,
         last_contacted |-> NoDate]

\* Contact.to_google_person; the result has no resourceName
to_google_person(c) ==
    LET emails ==
            (IF Truthy(c.primary_email)
             THEN <<[value |-> c.primary_email, type |-> "work"]>> ELSE <<>>)
            \o (IF Truthy(c.secondary_email)
                THEN <<[value |-> c.secondary_email, type |-> "home"]>> ELSE <<>>)
        phones ==
            (IF Truthy(c.primary_phone)
             THEN <<[value |-> c.primary_phone, type |-> "mobile"]>> ELSE <<>>)
            \o (IF Truthy(c.secondary_phone)
                THEN <<[value |-> c.secondary_phone, type |-> "home"]>> ELSE <<>>)
        orEmpty(v) == IF Truthy(v) THEN v ELSE <<>>
    IN  [resourceName |-> <<>>,
         names |->
            IF Truthy(c.first_name) \/ Truthy(c.last_name)
            THEN <<[givenName |-> c.first_name, familyName |-> c.last_name]>>
            ELSE <<>>,
         emailAddresses |-> emails,
         phoneNumbers |-> phones,
         birthdays |->
            IF c.birthday # NoDate /\ ~c.hide_birthday
            THEN <<[date |-> c.birthday]>> ELSE <<>>,
         organizations |->
            IF Truthy(c.company) \/ Truthy(c.title) \/ Truthy(c.department)
            THEN <<[name |-> orEmpty(c.company), title |-> orEmpty(c.title),
                    department |-> orEmpty(c.department)]>>
            ELSE <<>>,
         addresses |->
            IF Truthy(c.address) THEN <<[formattedValue |-> c.address]>> ELSE <<>>,
         urls |->
            IF Truthy(c.website)
            THEN <<[value |-> c.website, type |-> "homepage"]>> ELSE <<>>]

(* ------------------------------------------------------------------ *)
(* The database service's page.  A title or rich_text property is the  *)
(* list of its segments' plain_text; an email, phone_number or url is  *)
(* a string or None; a date is its start (the day, and whether the     *)
(* ISO string carries a time) or NoDateProp for null.                  *)
(* ------------------------------------------------------------------ *)
NoDateProp == [start |-> NoDate, hasTime |-> FALSE]

Page(id) ==
    [id |-> id, FirstName |-> <<>>, LastName |-> <<>>, Company |-> <<>>,
     JobTitle |-> <<>>, Department |-> <<>>, PrimaryEmail |-> None,
     SecondaryEmail |-> None, PrimaryPhone |-> None, SecondaryPhone |-> None,
     Birthday |-> NoDateProp, Address |-> <<>>, Website |-> None,
     HideBirthday |-> FALSE, Tags |-> <<>>, Notes |-> <<>>,
     LastContacted |-> NoDateProp, GoogleID |-> <<>>, LastSynced |-> NoDateProp]

\* get_title: title_list[0].get("plain_text", "") if title_list else ""
get_title(prop) == IF prop # <<>> THEN prop[1] ELSE <<>>

\* get_rich_text: the first segment's plain_text, None for an empty list
get_rich_text(prop) == IF prop # <<>> THEN prop[1] ELSE None

\* get_date: datetime.fromisoformat(start).date(), None for null
get_date(prop) == IF prop.start # NoDate THEN prop.start ELSE NoDate

\* x or ""
OrEmpty(v) == IF Truthy(v) THEN v ELSE <<>>

\* Contact.from_notion_page
from_notion_page(page) ==
    [google_id |-> OrEmpty(get_rich_text(page.GoogleID)),
     first_name |-> OrEmpty(get_title(page.FirstName)),
     last_name |-> OrEmpty(get_rich_text(page.LastName)),
     company |-> get_rich_text(page.Company),
     title |-> get_rich_text(page.JobTitle),
     department |-> get_rich_text(page.Department),
     primary_email |-> page.PrimaryEmail,
     secondary_email |-> page.SecondaryEmail,
     primary_phone |-> page.PrimaryPhone,
     secondary_phone |-> page.SecondaryPhone,
     birthday |-> get_date(page.Birthday),
     address |-> get_rich_text(page.Address),
     website |-> page.Website,
     hide_birthday |-> page.HideBirthday,
     tags |-> page.Tags,
     notes |-> get_rich_text(page.Notes),
     last_contacted |-> get_date(page.LastContacted)]

rich_text(value) == IF Truthy(value) THEN <<value>> ELSE <<>>
title_prop(value) == <<value>>
scalar_prop(value) == IF Truthy(value) THEN value ELSE None
date_prop(value) ==
    IF value # NoDate THEN [start |-> value, hasTime |-> FALSE] ELSE NoDateProp

\* Contact.to_notion_properties; today is datetime.now().date().  The result
\* is a page without id: every property is emitted.
to_notion_properties(c, today) ==
    [id |-> NoPage,
     FirstName |-> title_prop(c.first_name),
     LastName |-> rich_text(c.last_name),
     Company |-> rich_text(c.company),
     JobTitle |-> rich_text(c.title),
     Department |-> rich_text(c.department),
     PrimaryEmail |-> scalar_prop(c.primary_email),
     SecondaryEmail |-> scalar_prop(c.secondary_email),
     PrimaryPhone |-> scalar_prop(c.primary_phone),
     SecondaryPhone |-> scalar_prop(c.secondary_phone),
     Birthday |-> date_prop(c.birthday),
     Address |-> rich_text(c.address),
     Website |-> scalar_prop(c.website),
     HideBirthday |-> c.hide_birthday,
     Tags |-> c.tags,
     Notes |-> rich_text(c.notes),
     LastContacted |-> date_prop(c.last_contacted),
     GoogleID |-> rich_text(c.google_id),
     LastSynced |-> date_prop(today)]

(* ------------------------------------------------------------------ *)
(* The identity index: four maps from a key to a local handle          *)
(* ------------------------------------------------------------------ *)
EmptyMap == [k \in {} |-> NoPage]

\* an assignment that leaves a key already present alone
Put_KeepExisting(d, key, value) ==
    [k \in DOMAIN d \cup {key} |-> IF k \in DOMAIN d THEN d[k] ELSE value]

\* d[key] = value
Put(d, key, value) == [k \in DOMAIN d \cup {key} |-> IF k = key THEN value ELSE d[k]]

\* d.get(key)
Get(d, key) == IF key \in DOMAIN d THEN d[key] ELSE NoPage

EmptyIndex ==
    [google_id_to_page_id |-> EmptyMap, email_to_page_id |-> EmptyMap,
     phone_to_page_id |-> EmptyMap, name_to_page_id |-> EmptyMap]

\* IndexPage with a repeated key keeping its first registration
IndexPage_KeepFirst(idx, page) ==
    LET PutNew(d, key, value) == IF key \in DOMAIN d THEN d ELSE Put(d, key, value)
        google_id == IF page.GoogleID # <<>> THEN page.GoogleID[1] ELSE <<>>
        normalized_phone ==
            IF Truthy(page.PrimaryPhone) THEN Digits(page.PrimaryPhone) ELSE <<>>
        first_name == get_title(page.FirstName)
        last_name == IF page.LastName # <<>> THEN page.LastName[1] ELSE <<>>
        name_key == IF first_name # <<>> THEN NameKey(first_name, last_name) ELSE <<>>
    IN  [google_id_to_page_id |->
            IF google_id # <<>>
            THEN PutNew(idx.google_id_to_page_id, google_id, page.id)
            ELSE idx.google_id_to_page_id,
         email_to_page_id |->
            IF Truthy(page.PrimaryEmail)
            THEN PutNew(idx.email_to_page_id, Lower(page.PrimaryEmail), page.id)
            ELSE idx.email_to_page_id,
         phone_to_page_id |->
            IF normalized_phone # <<>>
            THEN PutNew(idx.phone_to_page_id, normalized_phone, page.id)
            ELSE idx.phone_to_page_id,
         name_to_page_id |->
            IF name_key # <<>>
            THEN PutNew(idx.name_to_page_id, name_key, page.id)
            ELSE idx.name_to_page_id]

\* the body of the loop of initialize: one listed page registered
IndexPage(idx, page) ==
    LET page_id == page.id
        google_id == IF page.GoogleID # <<>> THEN page.GoogleID[1] ELSE <<>>
        primary_email == page.PrimaryEmail
        primary_phone == page.PrimaryPhone
        normalized_phone == IF Truthy(primary_phone) THEN Digits(primary_phone) ELSE <<>>
        first_name == get_title(page.FirstName)
        last_name == IF page.LastName # <<>> THEN page.LastName[1] ELSE <<>>
        name_key == IF first_name # <<>> THEN NameKey(first_name, last_name) ELSE <<>>
    IN  [google_id_to_page_id |->
            IF google_id # <<>>
            THEN Put(idx.google_id_to_page_id, google_id, page_id)
            ELSE idx.google_id_to_page_id,
         email_to_page_id |->
            IF Truthy(primary_email)
            THEN Put(idx.email_to_page_id, Lower(primary_email), page_id)
            ELSE idx.email_to_page_id,
         phone_to_page_id |->
            IF normalized_phone # <<>>
            THEN Put(idx.phone_to_page_id, normalized_phone, page_id)
            ELSE idx.phone_to_page_id,
         name_to_page_id |->
            IF name_key # <<>>
            THEN Put(idx.name_to_page_id, name_key, page_id)
            ELSE idx.name_to_page_id]

RECURSIVE IndexPages(_, _)
IndexPages(idx, pages) ==
    IF pages = <<>> THEN idx ELSE IndexPages(IndexPage(idx, Head(pages)), Tail(pages))

\* ContactSyncer.initialize: the four maps are emptied, then every listed
\* page is registered in listing order
initialize(pages) == IndexPages(EmptyIndex, pages)

\* _find_existing_page that tries the email before the identity key
find_existing_page_EmailFirst(idx, c) ==
    LET by_email ==
            IF Truthy(c.primary_email)
            THEN Get(idx.email_to_page_id, Lower(c.primary_email)) ELSE NoPage
        by_phone ==
            IF Truthy(c.primary_phone)
            THEN Get(idx.phone_to_page_id, Digits(c.primary_phone)) ELSE NoPage
        by_name ==
            IF Truthy(c.first_name)
            THEN Get(idx.name_to_page_id, NameKey(c.first_name, c.last_name))
            ELSE NoPage
    IN  IF by_email # NoPage THEN by_email
        ELSE IF Truthy(c.google_id) /\ c.google_id \in DOMAIN idx.google_id_to_page_id
        THEN idx.google_id_to_page_id[c.google_id]
        ELSE IF by_phone # NoPage THEN by_phone
        ELSE IF by_name # NoPage THEN by_name
        ELSE NoPage

\* ContactSyncer._find_existing_page
find_existing_page(idx, c) ==
    LET by_email ==
            IF Truthy(c.primary_email)
            THEN Get(idx.email_to_page_id, Lower(c.primary_email)) ELSE NoPage
        by_phone ==
            IF Truthy(c.primary_phone)
            THEN Get(idx.phone_to_page_id, Digits(c.primary_phone)) ELSE NoPage
        by_name ==
            IF Truthy(c.first_name)
            THEN Get(idx.name_to_page_id, NameKey(c.first_name, c.last_name))
            ELSE NoPage
    IN  IF Truthy(c.google_id) /\ c.google_id \in DOMAIN idx.google_id_to_page_id
        THEN idx.google_id_to_page_id[c.google_id]
        ELSE IF by_email # NoPage THEN by_email
        ELSE IF by_phone # NoPage THEN by_phone
        ELSE IF by_name # NoPage THEN by_name
        ELSE NoPage

(* ------------------------------------------------------------------ *)
(* The merge policy                                                    *)
(* ------------------------------------------------------------------ *)
\* if not merged.f and notion_contact.f: merged.f = notion_contact.f
\* a gap-fill in which the database value wins whenever it is there
Fill_NotionWins(g, n) == IF Truthy(n) THEN n ELSE g

Fill(g, n) == IF ~Truthy(g) /\ Truthy(n) THEN n ELSE g

\* _merge_contacts without its "Hide Birthday" clause
merge_contacts_NoSuppression(google_contact, notion_contact) ==
    [google_contact EXCEPT
        !.primary_email = Fill(@, notion_contact.primary_email),
        !.secondary_email = Fill(@, notion_contact.secondary_email),
        !.primary_phone = Fill(@, notion_contact.primary_phone),
        !.secondary_phone = Fill(@, notion_contact.secondary_phone),
        !.birthday =
            IF @ = NoDate /\ notion_contact.birthday # NoDate
                /\ ~notion_contact.hide_birthday
            THEN notion_contact.birthday ELSE @,
        !.company = Fill(@, notion_contact.company),
        !.title = Fill(@, notion_contact.title),
        !.department = Fill(@, notion_contact.department),
        !.address = Fill(@, notion_contact.address),
        !.website = Fill(@, notion_contact.website)]

\* _merge_contacts building a new Contact from the remote-side fields instead
\* of copying google_contact: the database-only fields fall back to defaults
merge_contacts_NewContact(google_contact, notion_contact) ==
    [google_contact EXCEPT
        !.primary_email = Fill(@, notion_contact.primary_email),
        !.secondary_email = Fill(@, notion_contact.secondary_email),
        !.primary_phone = Fill(@, notion_contact.primary_phone),
        !.secondary_phone = Fill(@, notion_contact.secondary_phone),
        !.birthday =
            IF notion_contact.hide_birthday THEN NoDate
            ELSE IF @ = NoDate /\ notion_contact.birthday # NoDate
                 THEN notion_contact.birthday ELSE @,
        !.company = Fill(@, notion_contact.company),
        !.title = Fill(@, notion_contact.title),
        !.department = Fill(@, notion_contact.department),
        !.address = Fill(@, notion_contact.address),
        !.website = Fill(@, notion_contact.website),
        !.hide_birthday = FALSE,
        !.tags = <<>>,
        !.notes = None,
        !.last_contacted = NoDate]

\* _merge_contacts taking the database birth date whatever the flag says
merge_contacts_FillsHiddenBirthday(google_contact, notion_contact) ==
    [google_contact EXCEPT
        !.primary_email = Fill(@, notion_contact.primary_email),
        !.secondary_email = Fill(@, notion_contact.secondary_email),
        !.primary_phone = Fill(@, notion_contact.primary_phone),
        !.secondary_phone = Fill(@, notion_contact.secondary_phone),
        !.birthday =
            IF @ = NoDate /\ notion_contact.birthday # NoDate
            THEN notion_contact.birthday ELSE @,
        !.company = Fill(@, notion_contact.company),
        !.title = Fill(@, notion_contact.title),
        !.department = Fill(@, notion_contact.department),
        !.address = Fill(@, notion_contact.address),
        !.website = Fill(@, notion_contact.website)]

\* _merge_contacts letting the database notes fill an empty remote website
merge_contacts_NotesAsWebsite(google_contact, notion_contact) ==
    [google_contact EXCEPT
        !.primary_email = Fill(@, notion_contact.primary_email),
        !.secondary_email = Fill(@, notion_contact.secondary_email),
        !.primary_phone = Fill(@, notion_contact.primary_phone),
        !.secondary_phone = Fill(@, notion_contact.secondary_phone),
        !.birthday =
            IF notion_contact.hide_birthday THEN NoDate
            ELSE IF @ = NoDate /\ notion_contact.birthday # NoDate
                 THEN notion_contact.birthday ELSE @,
        !.company = Fill(@, notion_contact.company),
        !.title = Fill(@, notion_contact.title),
        !.department = Fill(@, notion_contact.department),
        !.address = Fill(@, notion_contact.address),
        !.website = Fill(Fill(@, notion_contact.website), notion_contact.notes)]

\* ContactSyncer._merge_contacts
merge_contacts(google_contact, notion_contact) ==
    [google_contact EXCEPT
        !.primary_email = Fill(@, notion_contact.primary_email),
        !.secondary_email = Fill(@, notion_contact.secondary_email),
        !.primary_phone = Fill(@, notion_contact.primary_phone),
        !.secondary_phone = Fill(@, notion_contact.secondary_phone),
        !.birthday =
            IF notion_contact.hide_birthday THEN NoDate
            ELSE IF @ = NoDate /\ notion_contact.birthday # NoDate
                 THEN notion_contact.birthday ELSE @,
        !.company = Fill(@, notion_contact.company),
        !.title = Fill(@, notion_contact.title),
        !.department = Fill(@, notion_contact.department),
        !.address = Fill(@, notion_contact.address),
        !.website = Fill(@, notion_contact.website)]

(* ------------------------------------------------------------------ *)
(* State                                                               *)
(* ------------------------------------------------------------------ *)
VARIABLES
    notion,           \* the database: the sequence of its pages, in listing order
    google,           \* the remote address book: the sequence of its persons
    index,            \* the syncer's four lookup maps
    pc,               \* where the running command is
    mode,             \* the sync command's direction: full, google_only, notion_only
    pass,             \* the number of the running sync invocation
    today,            \* datetime.now().date() of the running invocation
    google_contacts,  \* sync_from_google: the fetched list
    notion_pages,     \* sync_to_google: the fetched list
    i,                \* the position of the running loop in its list
    google_stats,     \* sync_from_google: stats
    notion_stats,     \* sync_to_google: stats
    calls,            \* the collaborator calls issued so far, in order
    failures,         \* how many collaborator calls have failed
    before,           \* the two services' data when the running invocation began
    contact,          \* the incoming record of a lookup
    found,            \* what _find_existing_page returned
    google_contact,   \* _merge_contacts: the remote-side argument
    notion_contact,   \* _merge_contacts: the database-side argument
    merged,           \* _merge_contacts: the result
    args,             \* the sync command's options and what main() loaded
    exit_code,        \* the command's exit status: <<>> until it exits
    output,           \* what the command has reported, in order
    access_token,     \* GoogleContactsClient._access_token: <<>> or <<n>>, the n-th token
    http,             \* the HTTP exchanges of the running _request call, in order
    outcome,          \* how the running _request call ended
    page_token,       \* get_contacts: the page token of the next listing request
    db_props          \* the database's properties: name |-> type

\* the state of a sync invocation
runVars == <<mode, pass, today, google_contacts, notion_pages, i,
             google_stats, notion_stats, calls, failures, before>>
\* the state of the lookup and merge specifications
unitVars == <<contact, found, google_contact, notion_contact, merged>>

\* the state of the command-line front end
cliVars == <<args, exit_code, output>>

\* the state of the two service adapters
adapterVars == <<access_token, http, outcome, page_token, db_props>>

vars == <<notion, google, index, pc, runVars, unitVars, cliVars, adapterVars>>

\* notion/schema.py: SCHEMA, each property with the type it is declared with
SCHEMA ==
    [p \in {"First Name", "Last Name", "Company", "Job Title", "Department",
            "Primary Email", "Secondary Email", "Primary Phone", "Secondary Phone",
            "Birthday", "Address", "Website", "Hide Birthday", "Tags", "Notes",
            "Last Contacted", "Google ID", "Last Synced"} |->
        CASE p = "First Name" -> "title"
          [] p \in {"Primary Email", "Secondary Email"} -> "email"
          [] p \in {"Primary Phone", "Secondary Phone"} -> "phone_number"
          [] p \in {"Birthday", "Last Contacted", "Last Synced"} -> "date"
          [] p = "Website" -> "url"
          [] p = "Hide Birthday" -> "checkbox"
          [] p = "Tags" -> "multi_select"
          [] OTHER -> "rich_text"]

\* no request is running; the database has the schema's properties
InitAdapters ==
    /\ access_token = <<>>
    /\ http = <<>>
    /\ outcome = "none"
    /\ page_token = <<>>
    /\ db_props = SCHEMA

\* the options that select direction m, with settings and refresh token loaded
ArgsFor(m) ==
    [dry_run |-> FALSE, google_only |-> (m = "google_only"),
     notion_only |-> (m = "notion_only"), settings |-> "loaded"]

Today == [year |-> 2024, month |-> 2, day |-> 28]

\* no sync invocation is running
InitRun ==
    /\ mode = "full"
    /\ pass = 1
    /\ today = Today
    /\ google_contacts = <<>>
    /\ notion_pages = <<>>
    /\ i = 1
    /\ google_stats = SyncStats
    /\ notion_stats = SyncStats
    /\ calls = <<>>
    /\ failures = 0
    /\ before = [notion |-> <<>>, google |-> <<>>]
    /\ args = ArgsFor(mode)
    /\ exit_code = <<>>
    /\ output = <<>>
    /\ InitAdapters

(* ------------------------------------------------------------------ *)
(* Values the inputs are drawn from                                    *)
(* ------------------------------------------------------------------ *)
RN1 == <<"c", "1">>
RN2 == <<"c", "2">>

\* sequences of at most n elements of S, each page carrying its position as id
RECURSIVE SeqsUpTo(_, _)
SeqsUpTo(S, n) ==
    IF n = 0 THEN {<<>>}
    ELSE LET shorter == SeqsUpTo(S, n - 1)
         IN  shorter \cup {Append(q, x) : q \in {r \in shorter : Len(r) = n - 1}, x \in S}

WithIds(pages) == [k \in DOMAIN pages |-> [pages[k] EXCEPT !.id = k]]

(* ------------------------------------------------------------------ *)
(* The index specification: a database listing is indexed, then one    *)
(* incoming record is looked up                                        *)
(* ------------------------------------------------------------------ *)
ListedPages ==
    { [Page(NoPage) EXCEPT !.GoogleID = gid, !.PrimaryEmail = email,
                           !.PrimaryPhone = phone,
                           !.FirstName = name[1], !.LastName = name[2]] :
        gid \in {<<>>, <<RN1>>},
        email \in {None, <<"J", "@", "x">>},
        phone \in {None, <<"1", "-", "5">>},
        name \in {<< <<>>, << <<"L", "i">> >> >>, << << <<"A", "n">> >>, <<>> >>} }

IncomingContacts ==
    { [Contact(gid, name[1], name[2]) EXCEPT !.primary_email = email,
                                             !.primary_phone = phone] :
        gid \in {<<>>, RN1, RN2},
        email \in {None, <<"j", "@", "X">>},
        phone \in {None, <<"(", "1", ")", "5">>, <<"-">>},
        name \in {<< <<>>, <<"L", "i">> >>, << <<"a", "N">>, <<>> >>, << <<" ">>, <<>> >>} }

InitIndex ==
    /\ notion \in {WithIds(q) : q \in SeqsUpTo(ListedPages, MaxListing)}
    /\ contact \in IncomingContacts
    /\ index = EmptyIndex
    /\ found = NoPage
    /\ pc = "start"
    /\ google = <<>>
    /\ google_contact = Contact(<<>>, <<>>, <<>>)
    /\ notion_contact = Contact(<<>>, <<>>, <<>>)
    /\ merged = Contact(<<>>, <<>>, <<>>)
    /\ InitRun

\* await syncer.initialize()
InitializeIndex ==
    /\ pc = "start"
    /\ index' = initialize(notion)
    /\ pc' = "indexed"
    /\ UNCHANGED <<notion, google, runVars, contact, google_contact, notion_contact, merged, found>>
    /\ UNCHANGED <<cliVars, adapterVars>>

\* self._find_existing_page(contact)
FindExistingPage ==
    /\ pc = "indexed"
    /\ found' = find_existing_page(index, contact)
    /\ pc' = "looked_up"
    /\ UNCHANGED <<notion, google, index, runVars, contact, google_contact, notion_contact, merged>>
    /\ UNCHANGED <<cliVars, adapterVars>>

NextIndex == InitializeIndex \/ FindExistingPage

SpecIndex == InitIndex /\ [][NextIndex]_vars

(* ------------------------------------------------------------------ *)
(* What the listing says about a key, independently of the index       *)
(* ------------------------------------------------------------------ *)
\* the keys a listed page can be matched under; <<>> when it has none of the type
PageIdentityKey(page) == from_notion_page(page).google_id
PageEmailKey(page) ==
    IF Truthy(page.PrimaryEmail) THEN Lower(page.PrimaryEmail) ELSE <<>>
PagePhoneKey(page) ==
    IF Truthy(page.PrimaryPhone) THEN Digits(page.PrimaryPhone) ELSE <<>>
PageNameKey(page) ==
    LET c == from_notion_page(page)
    IN  IF c.first_name # <<>> THEN NameKey(c.first_name, c.last_name) ELSE <<>>

\* the handle of the last page of the listing whose key is k; NoPage when none is
LastListed(KeyOf(_), k) ==
    LET hits == {j \in DOMAIN notion : KeyOf(notion[j]) = k}
    IN  IF k = <<>> \/ hits = {} THEN NoPage
        ELSE notion[CHOOSE j \in hits : \A h \in hits : h <= j].id

\* C3 as stated: after the index is built, every listed record with a non-empty
\* identity key k is what a lookup of an incoming record with identity key k
\* returns, whatever the incoming record's other fields are.
C3_AnyListedRecordIsFound ==
    pc = "looked_up" =>
        \A j \in DOMAIN notion :
            (PageIdentityKey(notion[j]) # <<>>
             /\ contact.google_id = PageIdentityKey(notion[j]))
                => found = notion[j].id

\* C3 amended: the lookup of an incoming record with identity key k returns the
\* handle of the LAST listed record whose identity key is k (a record listed
\* before another one with the same key is not found), whatever the incoming
\* record's email, phone and name are.
C3_LastListedRecordIsFound ==
    pc = "looked_up" =>
        \A j \in DOMAIN notion :
            (/\ PageIdentityKey(notion[j]) # <<>>
             /\ contact.google_id = PageIdentityKey(notion[j])
             /\ \A h \in DOMAIN notion :
                    h > j => PageIdentityKey(notion[h]) # PageIdentityKey(notion[j]))
                => found = notion[j].id

\* an incoming record is found by identity key although its email is the key of
\* another listed record and its phone and name are those of no record
C3_Witness ==
    /\ pc = "looked_up"
    /\ Len(notion) = 2
    /\ PageIdentityKey(notion[1]) = contact.google_id
    /\ PageIdentityKey(notion[2]) = <<>>
    /\ Truthy(contact.primary_email)
    /\ PageEmailKey(notion[1]) = <<>>
    /\ PageEmailKey(notion[2]) = Lower(contact.primary_email)
    /\ found = notion[1].id

\* C4: the lookup returns the identity-key hit if there is one, otherwise the
\* email hit, otherwise the phone hit, otherwise the name hit (given name
\* non-empty), and no match exactly when none of the four hits.
C4_MatchPriority ==
    pc = "looked_up" =>
        LET by_id == LastListed(PageIdentityKey, contact.google_id)
            by_email ==
                IF Truthy(contact.primary_email)
                THEN LastListed(PageEmailKey, Lower(contact.primary_email)) ELSE NoPage
            by_phone ==
                IF Truthy(contact.primary_phone)
                THEN LastListed(PagePhoneKey, Digits(contact.primary_phone)) ELSE NoPage
            by_name ==
                IF contact.first_name # <<>>
                THEN LastListed(PageNameKey,
                                NameKey(contact.first_name, contact.last_name))
                ELSE NoPage
        IN  /\ by_id # NoPage => found = by_id
            /\ (by_id = NoPage /\ by_email # NoPage) => found = by_email
            /\ (by_id = NoPage /\ by_email = NoPage /\ by_phone # NoPage)
                    => found = by_phone
            /\ (by_id = NoPage /\ by_email = NoPage /\ by_phone = NoPage
                /\ by_name # NoPage) => found = by_name
            /\ found = NoPage <=>
                (by_id = NoPage /\ by_email = NoPage /\ by_phone = NoPage
                 /\ by_name = NoPage)

\* the phone of the incoming record is the key of one record and its name the
\* key of another: the phone hit is returned
C4_Witness ==
    /\ pc = "looked_up"
    /\ Len(notion) = 2
    /\ LastListed(PageIdentityKey, contact.google_id) = NoPage
    /\ ~Truthy(contact.primary_email)
    /\ Truthy(contact.primary_phone)
    /\ LastListed(PagePhoneKey, Digits(contact.primary_phone)) = 2
    /\ contact.first_name # <<>>
    /\ LastListed(PageNameKey, NameKey(contact.first_name, contact.last_name)) = 1
    /\ found = 2

(* ------------------------------------------------------------------ *)
(* The merge specification: _merge_contacts applied to one remote-side *)
(* and one database-side record of the same person                     *)
(* ------------------------------------------------------------------ *)
NameFields == {"first_name", "last_name"}
RemoteFields ==
    NameFields \cup {"company", "title", "department", "primary_email",
                     "secondary_email", "primary_phone", "secondary_phone",
                     "birthday", "address", "website"}

\* the value a side holds in a field it has filled
FieldValue(side, f) ==
    IF f = "birthday"
    THEN [year |-> IF side = "g" THEN 1990 ELSE 1985, month |-> 1, day |-> 1]
    ELSE <<side>>
\* the values of a field that count as empty
EmptyValues(f) ==
    IF f = "birthday" THEN {NoDate}
    ELSE IF f \in NameFields THEN {<<>>}
    ELSE {None, <<>>}

AllFilled(side) ==
    [f \in DOMAIN Contact(RN1, <<>>, <<>>) |->
        IF f \in RemoteFields THEN FieldValue(side, f) ELSE Contact(RN1, <<>>, <<>>)[f]]

\* a record with every field empty or every field filled, but for one field
MergeInputs(side) ==
    UNION { { [base EXCEPT ![f] = v] :
                base \in {Contact(RN1, <<>>, <<>>), AllFilled(side)},
                v \in EmptyValues(f) \cup {FieldValue(side, f)} } :
            f \in RemoteFields }

InitMerge ==
    /\ google_contact \in MergeInputs("g")
    /\ \E hide \in BOOLEAN :
        notion_contact \in {[c EXCEPT !.hide_birthday = hide] : c \in MergeInputs("n")}
    /\ merged = Contact(<<>>, <<>>, <<>>)
    /\ pc = "start"
    /\ notion = <<>>
    /\ google = <<>>
    /\ index = EmptyIndex
    /\ contact = Contact(<<>>, <<>>, <<>>)
    /\ found = NoPage
    /\ InitRun

\* merged_contact = self._merge_contacts(google_contact, notion_contact)
MergeContacts ==
    /\ pc = "start"
    /\ merged' = merge_contacts(google_contact, notion_contact)
    /\ pc' = "merged"
    /\ UNCHANGED <<notion, google, index, runVars, contact, found, google_contact, notion_contact>>
    /\ UNCHANGED <<cliVars, adapterVars>>

NextMerge == MergeContacts

SpecMerge == InitMerge /\ [][NextMerge]_vars

NonEmpty(f, v) == v \notin EmptyValues(f)

\* what the rule "remote wins if non-empty, otherwise the database value" gives
\* for field f, with the suppression exception for the birth date
RuleValue(f) ==
    IF f = "birthday" /\ notion_contact.hide_birthday THEN NoDate
    ELSE IF NonEmpty(f, google_contact[f]) THEN google_contact[f]
    ELSE notion_contact[f]

\* two values of a field are the same value, or both are empty
SameValue(f, a, b) == a = b \/ (~NonEmpty(f, a) /\ ~NonEmpty(f, b))

\* C10: for every remote-side field of the canonical record, the names
\* included, the merged value is the remote-side value when that is non-empty
\* and otherwise the database-side value (birth date: null under suppression).
C10_MergeRuleEveryField ==
    pc = "merged" =>
        \A f \in RemoteFields : SameValue(f, merged[f], RuleValue(f))

\* C11: for every field in which the remote record has a non-empty value, the
\* merged record carries the remote value (the birth date: null when the
\* database record suppresses it), and never the database record's value when
\* that differs from the remote one.
C11_RemoteValueIsNeverReplaced ==
    pc = "merged" =>
        \A f \in RemoteFields :
            NonEmpty(f, google_contact[f]) =>
                /\ \/ merged[f] = google_contact[f]
                   \/ /\ f = "birthday"
                      /\ notion_contact.hide_birthday
                      /\ merged[f] = NoDate
                /\ (NonEmpty(f, notion_contact[f])
                    /\ notion_contact[f] # google_contact[f])
                        => merged[f] # notion_contact[f]

\* both sides have filled every field, with different values, and the merge
\* returned the remote side's
C11_Witness ==
    /\ pc = "merged"
    /\ ~notion_contact.hide_birthday
    /\ \A f \in RemoteFields :
            /\ NonEmpty(f, google_contact[f])
            /\ NonEmpty(f, notion_contact[f])
            /\ notion_contact[f] # google_contact[f]
            /\ merged[f] = google_contact[f]

\* C12: whenever the database record's suppress-birthday flag is set, the
\* merged birth date is null, whatever birth dates the two sides hold.
C12_SuppressionNullsBirthday ==
    pc = "merged" => (notion_contact.hide_birthday => merged.birthday = NoDate)

\* both sides have a birth date, the flag is set, and the merged one is null
C12_Witness ==
    /\ pc = "merged"
    /\ notion_contact.hide_birthday
    /\ google_contact.birthday # NoDate
    /\ notion_contact.birthday # NoDate
    /\ merged.birthday = NoDate

(* ------------------------------------------------------------------ *)
(* _merge_contacts applied to one record as both of its arguments      *)
(* ------------------------------------------------------------------ *)
\* the canonical records: every field empty or filled but for one, with the
\* suppress-birthday flag clear or set and with or without a tag
CanonicalRecords ==
    {[r EXCEPT !.hide_birthday = hide, !.tags = tags] :
        r \in MergeInputs("n"), hide \in BOOLEAN, tags \in {<<>>, << <<"t">> >>}}

InitMergeSelf ==
    /\ notion_contact \in CanonicalRecords
    /\ google_contact = notion_contact
    /\ merged = Contact(<<>>, <<>>, <<>>)
    /\ pc = "start"
    /\ notion = <<>>
    /\ google = <<>>
    /\ index = EmptyIndex
    /\ contact = Contact(<<>>, <<>>, <<>>)
    /\ found = NoPage
    /\ InitRun

SpecMergeSelf == InitMergeSelf /\ [][NextMerge]_vars

\* C13 as stated: merging a record with itself returns a record equal to it
\* in every field.
C13_MergeWithItselfIsIdentity ==
    pc = "merged" => merged = google_contact

\* C13 amended: merging a record r with itself returns r in every field but the
\* birth date, which is null when r's suppress-birthday flag is set and r's own
\* otherwise.
C13_MergeWithItselfUpToSuppression ==
    pc = "merged" =>
        merged = [google_contact EXCEPT
                    !.birthday = IF google_contact.hide_birthday THEN NoDate ELSE @]

\* a record with the flag set and every remote-side field filled is merged
\* with itself: the birth date is gone, the other fields are the record's
C13_Witness ==
    /\ pc = "merged"
    /\ google_contact = notion_contact
    /\ google_contact.hide_birthday
    /\ \A f \in RemoteFields : NonEmpty(f, google_contact[f])
    /\ merged.birthday = NoDate
    /\ \A f \in RemoteFields \ {"birthday"} : merged[f] = google_contact[f]

(* ------------------------------------------------------------------ *)
(* The collaborators                                                   *)
(* ------------------------------------------------------------------ *)
\* NotionClient.update_page(page_id, properties): the page's properties become
\* the ones given
update_page(db, page_id, properties) ==
    [db EXCEPT ![page_id] = [properties EXCEPT !.id = page_id]]

\* NotionClient.create_page(database_id, properties): a new page, listed last;
\* result["id"] is its handle
create_page(db, properties) == Append(db, [properties EXCEPT !.id = Len(db) + 1])

PersonKeys ==
    {"names", "emailAddresses", "phoneNumbers", "birthdays", "organizations",
     "addresses", "urls"}

\* update_contact sending the person without the resource name it was given
update_contact_Unaddressed(resource_name, c) ==
    LET person == to_google_person(c)
    IN  [resource_name |-> <<>>,
         updatePersonFields |-> {f \in {"names", "emailAddresses", "phoneNumbers",
                                        "birthdays", "organizations", "addresses",
                                        "urls"} : person[f] # <<>>},
         json |-> person]

\* GoogleContactsClient.update_contact: the PATCH request it sends
update_contact(resource_name, c) ==
    LET person == to_google_person(c)
    IN  [resource_name |-> resource_name,
         updatePersonFields |-> {f \in PersonKeys : person[f] # <<>>},
         json |-> person]

NoRequest ==
    [resource_name |-> <<>>, updatePersonFields |-> {}, json |-> Person(<<>>)]

\* the remote service's updateContact: the fields of the update mask are
\* replaced by the request's, every other field is kept
updateContact(people, request) ==
    [k \in DOMAIN people |->
        IF people[k].resourceName = request.resource_name
        THEN [f \in DOMAIN people[k] |->
                IF f \in request.updatePersonFields THEN request.json[f]
                ELSE people[k][f]]
        ELSE people[k]]

\* the position of the person named rn in the address book, 0 when there is none
PersonAt(rn) ==
    IF \E k \in DOMAIN google : google[k].resourceName = rn
    THEN CHOOSE k \in DOMAIN google : google[k].resourceName = rn
    ELSE 0

\* one entry of the call log
Call(op, rec, page, rn, ok, request) ==
    [op |-> op, pass |-> pass, rec |-> rec, page |-> page, rn |-> rn, ok |-> ok,
     request |-> request]

(* ------------------------------------------------------------------ *)
(* The sync orchestrator                                               *)
(* ------------------------------------------------------------------ *)
\* sync_from_google: the database-only fields of the loaded page are copied
\* onto the incoming record
PreserveNotionOnly(c, nc) ==
    [c EXCEPT !.hide_birthday = nc.hide_birthday, !.tags = nc.tags,
              !.notes = nc.notes, !.last_contacted = nc.last_contacted]

\* sync_from_google without its try/except: the failure propagates
FromGoogleExcept_Reraise(stats, c, e) == [pc |-> "raised", stats |-> stats]

\* sync_from_google's except clause going on without recording the error
FromGoogleExcept_Swallow(stats, c, e) == [pc |-> "sync_from_google", stats |-> stats]

\* sync_from_google's except clause: the error is recorded and the loop goes on
FromGoogleExcept(stats, c, e) ==
    [pc |-> "sync_from_google",
     stats |-> [stats EXCEPT !.errors =
                    Append(@, [text |-> "Failed to sync", first_name |-> c.first_name,
                               last_name |-> c.last_name, e |-> e])]]

\* sync_to_google without its inner try/except: the failure propagates
ToGoogleExcept_Reraise(stats, nc, e) == [pc |-> "raised", stats |-> stats]

\* sync_to_google's inner except clause
ToGoogleExcept(stats, nc, e) ==
    [pc |-> "sync_to_google",
     stats |-> [stats EXCEPT !.errors =
                    Append(@, [text |-> "Failed to sync to Google",
                               first_name |-> nc.first_name,
                               last_name |-> nc.last_name, e |-> e])]]

\* sync_contact_to_notion updating a page without registering the Google ID
IndexAfterUpdate_Untouched(idx, c, existing_page_id) == idx

\* sync_contact_to_notion: the index after an update of existing_page_id
IndexAfterUpdate(idx, c, existing_page_id) ==
    IF Truthy(c.google_id)
    THEN [idx EXCEPT !.google_id_to_page_id = Put(@, c.google_id, existing_page_id)]
    ELSE idx

\* sync_contact_to_notion creating a page without registering it
IndexAfterCreate_NoRegistration(idx, c, new_page_id) == idx

\* sync_contact_to_notion: the index after the creation of new_page_id
IndexAfterCreate(idx, c, new_page_id) ==
    [idx EXCEPT
        !.google_id_to_page_id =
            IF Truthy(c.google_id) THEN Put(@, c.google_id, new_page_id) ELSE @,
        !.email_to_page_id =
            IF Truthy(c.primary_email)
            THEN Put(@, Lower(c.primary_email), new_page_id) ELSE @]

\* the day after d
NextDay(d) ==
    IF d.day < DaysInMonth(d.year, d.month) THEN [d EXCEPT !.day = @ + 1]
    ELSE IF d.month < 12 THEN [d EXCEPT !.month = @ + 1, !.day = 1]
    ELSE [year |-> d.year + 1, month |-> 1, day |-> 1]

\* initialize() swallowing a failure of its listing: the caller goes on with the
\* pages read so far
Initialize_Swallowed ==
    /\ pc = "start"
    /\ \/ /\ index' = initialize(notion)
          /\ calls' = Append(calls, Call("query_database_all", 0, NoPage, <<>>, TRUE, NoRequest))
          /\ pc' = "initialized"
          /\ UNCHANGED failures
       \/ /\ failures < MaxFailures
          /\ \E n \in 0..Len(notion) : index' = initialize(SubSeq(notion, 1, n))
          /\ calls' = Append(calls, Call("query_database_all", 0, NoPage, <<>>, FALSE, NoRequest))
          /\ pc' = "initialized"
          /\ failures' = failures + 1
    /\ UNCHANGED <<notion, google, mode, pass, today, google_contacts, notion_pages, i,
                   google_stats, notion_stats, before, unitVars>>
    /\ UNCHANGED <<cliVars, adapterVars>>

\* initialize() keeping the entries its maps already hold
Initialize_Incremental ==
    /\ pc = "start"
    /\ \/ /\ index' = IndexPages(index, notion)
          /\ calls' = Append(calls, Call("query_database_all", 0, NoPage, <<>>, TRUE, NoRequest))
          /\ pc' = "initialized"
          /\ UNCHANGED failures
       \/ /\ failures < MaxFailures
          /\ \E n \in 0..Len(notion) : index' = IndexPages(index, SubSeq(notion, 1, n))
          /\ calls' = Append(calls, Call("query_database_all", 0, NoPage, <<>>, FALSE, NoRequest))
          /\ pc' = "raised"
          /\ failures' = failures + 1
    /\ UNCHANGED <<notion, google, mode, pass, today, google_contacts, notion_pages, i,
                   google_stats, notion_stats, before, unitVars>>
    /\ UNCHANGED <<cliVars, adapterVars>>

\* await self.initialize(): the maps are emptied, the database is listed and
\* every page registered; a listing that fails leaves the pages read so far
\* registered and raises
Initialize ==
    /\ pc = "start"
    /\ \/ /\ index' = initialize(notion)
          /\ calls' = Append(calls, Call("query_database_all", 0, NoPage, <<>>, TRUE, NoRequest))
          /\ pc' = "initialized"
          /\ UNCHANGED failures
       \/ /\ failures < MaxFailures
          /\ \E n \in 0..Len(notion) : index' = initialize(SubSeq(notion, 1, n))
          /\ calls' = Append(calls, Call("query_database_all", 0, NoPage, <<>>, FALSE, NoRequest))
          /\ pc' = "raised"
          /\ failures' = failures + 1
    /\ UNCHANGED <<notion, google, mode, pass, today, google_contacts, notion_pages, i,
                   google_stats, notion_stats, before, unitVars>>
    /\ UNCHANGED <<cliVars, adapterVars>>

\* sync_from_google up to its loop: stats = SyncStats(), get_contacts()
SyncFromGoogleFetch ==
    /\ pc = "initialized"
    /\ mode \in {"full", "google_only"}
    /\ google_stats' = SyncStats
    /\ \/ /\ google_contacts' = [k \in DOMAIN google |-> from_google_api(google[k])]
          /\ i' = 1
          /\ calls' = Append(calls, Call("get_contacts", 0, NoPage, <<>>, TRUE, NoRequest))
          /\ pc' = "sync_from_google"
          /\ UNCHANGED failures
       \/ /\ failures < MaxFailures
          /\ calls' = Append(calls, Call("get_contacts", 0, NoPage, <<>>, FALSE, NoRequest))
          /\ pc' = "raised"
          /\ failures' = failures + 1
          /\ UNCHANGED <<google_contacts, i>>
    /\ UNCHANGED <<notion, google, index, mode, pass, today, notion_pages,
                   notion_stats, before, unitVars>>
    /\ UNCHANGED <<cliVars, adapterVars>>

\* one iteration of sync_from_google's loop that stays on a record whose call
\* failed, to process it again
SyncFromGoogleRecord_Retries ==
    /\ pc = "sync_from_google"
    /\ i <= Len(google_contacts)
    /\ \E incoming \in {google_contacts[i]} :
       \E existing_page_id \in {find_existing_page(index, incoming)} :
       \E c \in {IF existing_page_id # NoPage
                 THEN PreserveNotionOnly(incoming,
                                         from_notion_page(notion[existing_page_id]))
                 ELSE incoming} :
       \E properties \in {to_notion_properties(c, today)} :
       \E target \in {find_existing_page(index, c)} :
       LET loaded(ok) ==
                IF existing_page_id # NoPage
                THEN <<Call("get_page", i, existing_page_id, <<>>, ok, NoRequest)>>
                ELSE <<>>
           write_op == IF target # NoPage THEN "update_page" ELSE "create_page"
           new_page_id == Len(notion) + 1
       IN  \/ \* get_page raises
              /\ existing_page_id # NoPage
              /\ failures < MaxFailures
              /\ failures' = failures + 1
              /\ calls' = calls \o loaded(FALSE)
              /\ pc' = FromGoogleExcept(google_stats, incoming, "get_page").pc
              /\ google_stats' = FromGoogleExcept(google_stats, incoming, "get_page").stats
              /\ UNCHANGED <<notion, index, google_contacts>>
           \/ \* update_page or create_page raises
              /\ failures < MaxFailures
              /\ failures' = failures + 1
              /\ calls' = calls \o loaded(TRUE)
                            \o <<Call(write_op, i, target, <<>>, FALSE, NoRequest)>>
              /\ pc' = FromGoogleExcept(google_stats, c, write_op).pc
              /\ google_stats' = FromGoogleExcept(google_stats, c, write_op).stats
              /\ google_contacts' = [google_contacts EXCEPT ![i] = c]
              /\ UNCHANGED <<notion, index>>
           \/ \* the page is updated
              /\ target # NoPage
              /\ notion' = update_page(notion, target, properties)
              /\ index' = IndexAfterUpdate(index, c, target)
              /\ calls' = calls \o loaded(TRUE)
                            \o <<Call("update_page", i, target, <<>>, TRUE, NoRequest)>>
              /\ google_stats' = [google_stats EXCEPT !.updated = @ + 1]
              /\ google_contacts' = [google_contacts EXCEPT ![i] = c]
              /\ UNCHANGED <<pc, failures>>
           \/ \* a page is created
              /\ target = NoPage
              /\ notion' = create_page(notion, properties)
              /\ index' = IndexAfterCreate(index, c, new_page_id)
              /\ calls' = calls \o loaded(TRUE)
                            \o <<Call("create_page", i, new_page_id, <<>>, TRUE, NoRequest)>>
              /\ google_stats' = [google_stats EXCEPT !.created = @ + 1]
              /\ google_contacts' = [google_contacts EXCEPT ![i] = c]
              /\ UNCHANGED <<pc, failures>>
    /\ i' = IF failures' > failures THEN i ELSE i + 1
    /\ UNCHANGED <<google, mode, pass, today, notion_pages, notion_stats, before,
                   unitVars>>
    /\ UNCHANGED <<cliVars, adapterVars>>

\* one iteration of sync_from_google's loop, sync_contact_to_notion included
SyncFromGoogleRecord ==
    /\ pc = "sync_from_google"
    /\ i <= Len(google_contacts)
    /\ \E incoming \in {google_contacts[i]} :
       \E existing_page_id \in {find_existing_page(index, incoming)} :
       \E c \in {IF existing_page_id # NoPage
                 THEN PreserveNotionOnly(incoming,
                                         from_notion_page(notion[existing_page_id]))
                 ELSE incoming} :
       \E properties \in {to_notion_properties(c, today)} :
       \E target \in {find_existing_page(index, c)} :
       LET loaded(ok) ==
                IF existing_page_id # NoPage
                THEN <<Call("get_page", i, existing_page_id, <<>>, ok, NoRequest)>>
                ELSE <<>>
           write_op == IF target # NoPage THEN "update_page" ELSE "create_page"
           new_page_id == Len(notion) + 1
       IN  \/ \* get_page raises
              /\ existing_page_id # NoPage
              /\ failures < MaxFailures
              /\ failures' = failures + 1
              /\ calls' = calls \o loaded(FALSE)
              /\ pc' = FromGoogleExcept(google_stats, incoming, "get_page").pc
              /\ google_stats' = FromGoogleExcept(google_stats, incoming, "get_page").stats
              /\ UNCHANGED <<notion, index, google_contacts>>
           \/ \* update_page or create_page raises
              /\ failures < MaxFailures
              /\ failures' = failures + 1
              /\ calls' = calls \o loaded(TRUE)
                            \o <<Call(write_op, i, target, <<>>, FALSE, NoRequest)>>
              /\ pc' = FromGoogleExcept(google_stats, c, write_op).pc
              /\ google_stats' = FromGoogleExcept(google_stats, c, write_op).stats
              /\ google_contacts' = [google_contacts EXCEPT ![i] = c]
              /\ UNCHANGED <<notion, index>>
           \/ \* the page is updated
              /\ target # NoPage
              /\ notion' = update_page(notion, target, properties)
              /\ index' = IndexAfterUpdate(index, c, target)
              /\ calls' = calls \o loaded(TRUE)
                            \o <<Call("update_page", i, target, <<>>, TRUE, NoRequest)>>
              /\ google_stats' = [google_stats EXCEPT !.updated = @ + 1]
              /\ google_contacts' = [google_contacts EXCEPT ![i] = c]
              /\ UNCHANGED <<pc, failures>>
           \/ \* a page is created
              /\ target = NoPage
              /\ notion' = create_page(notion, properties)
              /\ index' = IndexAfterCreate(index, c, new_page_id)
              /\ calls' = calls \o loaded(TRUE)
                            \o <<Call("create_page", i, new_page_id, <<>>, TRUE, NoRequest)>>
              /\ google_stats' = [google_stats EXCEPT !.created = @ + 1]
              /\ google_contacts' = [google_contacts EXCEPT ![i] = c]
              /\ UNCHANGED <<pc, failures>>
    /\ i' = i + 1
    /\ UNCHANGED <<google, mode, pass, today, notion_pages, notion_stats, before,
                   unitVars>>
    /\ UNCHANGED <<cliVars, adapterVars>>

\* sync_from_google handing over while records of its loop are still pending
SyncFromGoogleReturn_Early ==
    /\ pc = "sync_from_google"
    /\ pc' = IF mode = "full" THEN "from_google_returned" ELSE "done"
    /\ UNCHANGED <<notion, google, index, runVars, unitVars>>
    /\ UNCHANGED <<cliVars, adapterVars>>

\* sync_from_google returns stats; full_sync goes on with sync_to_google
SyncFromGoogleReturn ==
    /\ pc = "sync_from_google"
    /\ i > Len(google_contacts)
    /\ pc' = IF mode = "full" THEN "from_google_returned" ELSE "done"
    /\ UNCHANGED <<notion, google, index, runVars, unitVars>>
    /\ UNCHANGED <<cliVars, adapterVars>>

\* sync_to_google up to its loop: stats = SyncStats(), the database is listed
SyncToGoogleFetch ==
    /\ \/ pc = "initialized" /\ mode = "notion_only"
       \/ pc = "from_google_returned"
    /\ notion_stats' = SyncStats
    /\ \/ /\ notion_pages' = notion
          /\ i' = 1
          /\ calls' = Append(calls, Call("query_database_all", 0, NoPage, <<>>, TRUE, NoRequest))
          /\ pc' = "sync_to_google"
          /\ UNCHANGED failures
       \/ /\ failures < MaxFailures
          /\ calls' = Append(calls, Call("query_database_all", 0, NoPage, <<>>, FALSE, NoRequest))
          /\ pc' = "raised"
          /\ failures' = failures + 1
          /\ UNCHANGED <<notion_pages, i>>
    /\ UNCHANGED <<notion, google, index, mode, pass, today, google_contacts,
                   google_stats, before, unitVars>>
    /\ UNCHANGED <<cliVars, adapterVars>>

\* sync_to_google with "if not notion_contact.google_id" never skipping
HasGoogleID_Always(nc) == TRUE

\* sync_to_google: the record has a Google ID, so it is not skipped
HasGoogleID(nc) == Truthy(nc.google_id)

\* sync_to_google writing every fetched record back
NeedsUpdate_Always(google_data, merged_data) == TRUE

\* sync_to_google: if google_data != merged_data
NeedsUpdate(google_data, merged_data) == google_data # merged_data

\* one iteration of sync_to_google's loop
SyncToGoogleRecord ==
    /\ pc = "sync_to_google"
    /\ i <= Len(notion_pages)
    /\ \E page \in {notion_pages[i]} :
       \E nc \in {from_notion_page(page)} :
       \E rn \in {nc.google_id} :
       \E at \in {PersonAt(rn)} :
       LET gc == from_google_api(google[at])
           merged_contact == merge_contacts(gc, nc)
           google_data == to_google_person(gc)
           merged_data == to_google_person(merged_contact)
           request == update_contact(rn, merged_contact)
           fetched(ok) == <<Call("get_contact", i, page.id, rn, ok, NoRequest)>>
       IN  \/ \* no Google ID: skipped
              /\ ~HasGoogleID(nc)
              /\ notion_stats' = [notion_stats EXCEPT !.skipped = @ + 1]
              /\ UNCHANGED <<google, calls, pc, failures>>
           \/ \* get_contact raises: the service has no such person
              /\ HasGoogleID(nc)
              /\ at = 0
              /\ calls' = calls \o fetched(FALSE)
              /\ pc' = ToGoogleExcept(notion_stats, nc, "get_contact").pc
              /\ notion_stats' = ToGoogleExcept(notion_stats, nc, "get_contact").stats
              /\ UNCHANGED <<google, failures>>
           \/ \* get_contact raises: the request fails
              /\ HasGoogleID(nc)
              /\ at # 0
              /\ failures < MaxFailures
              /\ failures' = failures + 1
              /\ calls' = calls \o fetched(FALSE)
              /\ pc' = ToGoogleExcept(notion_stats, nc, "get_contact").pc
              /\ notion_stats' = ToGoogleExcept(notion_stats, nc, "get_contact").stats
              /\ UNCHANGED google
           \/ \* nothing to change
              /\ HasGoogleID(nc)
              /\ at # 0
              /\ ~NeedsUpdate(google_data, merged_data)
              /\ calls' = calls \o fetched(TRUE)
              /\ UNCHANGED <<google, notion_stats, pc, failures>>
           \/ \* update_contact raises
              /\ HasGoogleID(nc)
              /\ at # 0
              /\ NeedsUpdate(google_data, merged_data)
              /\ failures < MaxFailures
              /\ failures' = failures + 1
              /\ calls' = calls \o fetched(TRUE)
                            \o <<Call("update_contact", i, page.id, rn, FALSE, request)>>
              /\ pc' = ToGoogleExcept(notion_stats, nc, "update_contact").pc
              /\ notion_stats' = ToGoogleExcept(notion_stats, nc, "update_contact").stats
              /\ UNCHANGED google
           \/ \* the remote record is updated
              /\ HasGoogleID(nc)
              /\ at # 0
              /\ NeedsUpdate(google_data, merged_data)
              /\ google' = updateContact(google, request)
              /\ calls' = calls \o fetched(TRUE)
                            \o <<Call("update_contact", i, page.id, rn, TRUE, request)>>
              /\ notion_stats' = [notion_stats EXCEPT !.updated = @ + 1]
              /\ UNCHANGED <<pc, failures>>
    /\ i' = i + 1
    /\ UNCHANGED <<notion, index, mode, pass, today, google_contacts, notion_pages,
                   google_stats, before, unitVars>>
    /\ UNCHANGED <<cliVars, adapterVars>>

\* sync_to_google returns stats
SyncToGoogleReturn ==
    /\ pc = "sync_to_google"
    /\ i > Len(notion_pages)
    /\ pc' = "done"
    /\ UNCHANGED <<notion, google, index, runVars, unitVars>>
    /\ UNCHANGED <<cliVars, adapterVars>>

\* the sync command is invoked again, on the same day or the next
SyncAgain ==
    /\ pc \in {"done", "raised"}
    /\ pass < MaxPasses
    /\ pass' = pass + 1
    /\ today' \in {today, NextDay(today)}
    /\ before' = [notion |-> notion, google |-> google]
    /\ pc' = "start"
    /\ UNCHANGED <<notion, google, index, mode, google_contacts, notion_pages, i,
                   google_stats, notion_stats, calls, failures, unitVars>>
    /\ UNCHANGED <<cliVars, adapterVars>>

(* ------------------------------------------------------------------ *)
(* The data a run starts from                                          *)
(* ------------------------------------------------------------------ *)
RN3 == <<"c", "3">>
ResourceNames == <<RN1, RN2, RN3>>
GivenNames == << <<"A", "n">>, <<"C", "y">>, <<"D", "i">> >>

\* a person with an email address and no birthday
PersonWithEmail(n) ==
    [Person(ResourceNames[n]) EXCEPT
        !.names = <<[givenName |-> GivenNames[n], familyName |-> <<>>]>>,
        !.emailAddresses = <<[value |-> <<"a", "@", "x">>, type |-> "work"]>>]

\* a person with a birthday and no email address
PersonWithBirthday(n) ==
    [Person(ResourceNames[n]) EXCEPT
        !.names = <<[givenName |-> GivenNames[n], familyName |-> <<>>]>>,
        !.birthdays = <<[date |-> [year |-> 1990, month |-> 1, day |-> 1]]>>]

\* the k-th smallest element of a set of numbers
Nth(S, k) == CHOOSE x \in S : Cardinality({y \in S : y < x}) = k - 1

\* the address books: at most MaxContacts persons with distinct resource names
AddressBooks ==
    UNION { { [k \in 1..Cardinality(S) |->
                    IF v[Nth(S, k)] = "email" THEN PersonWithEmail(Nth(S, k))
                    ELSE PersonWithBirthday(Nth(S, k))] :
                v \in [S -> {"email", "birthday"}] } :
            S \in {T \in SUBSET DOMAIN ResourceNames : Cardinality(T) <= MaxContacts} }

\* a page somebody enriched in the database: an email address, notes in two
\* rich-text segments, a tag, a last-contacted date with a time
EnrichedPage(gid) ==
    [Page(NoPage) EXCEPT
        !.FirstName = << <<"A", "n">> >>,
        !.PrimaryEmail = <<"A", "@", "x">>,
        !.Notes = << <<"n">>, <<"m">> >>,
        !.Tags = << <<"t">> >>,
        !.LastContacted = [start |-> [year |-> 2024, month |-> 1, day |-> 5],
                           hasTime |-> TRUE],
        !.GoogleID = gid]

\* a page whose birthday is suppressed
SuppressedPage(gid) ==
    [Page(NoPage) EXCEPT
        !.FirstName = << <<"B", "o">> >>,
        !.Birthday = [start |-> [year |-> 1985, month |-> 1, day |-> 1],
                      hasTime |-> FALSE],
        !.HideBirthday = TRUE,
        !.GoogleID = gid]

\* with the identity key RN1, or entered by hand without one
StartPages ==
    {EnrichedPage(gid) : gid \in {<<>>, <<RN1>>}}
        \cup {SuppressedPage(gid) : gid \in {<<>>, <<RN1>>}}

\* the sync command is invoked in direction m
InitSync(m) ==
    /\ notion \in {WithIds(q) : q \in SeqsUpTo(StartPages, MaxPages)}
    /\ google \in AddressBooks
    /\ before = [notion |-> notion, google |-> google]
    /\ index = EmptyIndex
    /\ pc = "start"
    /\ mode = m
    /\ pass = 1
    /\ today = Today
    /\ google_contacts = <<>>
    /\ notion_pages = <<>>
    /\ i = 1
    /\ google_stats = SyncStats
    /\ notion_stats = SyncStats
    /\ calls = <<>>
    /\ failures = 0
    /\ contact = Contact(<<>>, <<>>, <<>>)
    /\ found = NoPage
    /\ google_contact = Contact(<<>>, <<>>, <<>>)
    /\ notion_contact = Contact(<<>>, <<>>, <<>>)
    /\ merged = Contact(<<>>, <<>>, <<>>)
    /\ args = ArgsFor(mode)
    /\ exit_code = <<>>
    /\ output = <<>>
    /\ InitAdapters

(* ------------------------------------------------------------------ *)
(* full_sync, invoked up to MaxPasses times in sequence                *)
(* ------------------------------------------------------------------ *)
Init == InitSync("full")

Next ==
    \/ Initialize
    \/ SyncFromGoogleFetch
    \/ SyncFromGoogleRecord
    \/ SyncFromGoogleReturn
    \/ SyncToGoogleFetch
    \/ SyncToGoogleRecord
    \/ SyncToGoogleReturn
    \/ SyncAgain

Spec == Init /\ [][Next]_vars

(* ------------------------------------------------------------------ *)
(* full_sync, invoked once                                             *)
(* ------------------------------------------------------------------ *)
NextFullSync ==
    \/ Initialize
    \/ SyncFromGoogleFetch
    \/ SyncFromGoogleRecord
    \/ SyncFromGoogleReturn
    \/ SyncToGoogleFetch
    \/ SyncToGoogleRecord
    \/ SyncToGoogleReturn

SpecFullSync == Init /\ [][NextFullSync]_vars

(* ------------------------------------------------------------------ *)
(* sync --google-only: initialize(), then sync_from_google()           *)
(* ------------------------------------------------------------------ *)
InitFromGoogle == InitSync("google_only")

NextFromGoogle ==
    \/ Initialize
    \/ SyncFromGoogleFetch
    \/ SyncFromGoogleRecord
    \/ SyncFromGoogleReturn

SpecFromGoogle == InitFromGoogle /\ [][NextFromGoogle]_vars

(* ------------------------------------------------------------------ *)
(* sync --notion-only: initialize(), then sync_to_google()             *)
(* ------------------------------------------------------------------ *)
InitToGoogle == InitSync("notion_only")

NextToGoogle ==
    \/ Initialize
    \/ SyncToGoogleFetch
    \/ SyncToGoogleRecord
    \/ SyncToGoogleReturn

SpecToGoogle == InitToGoogle /\ [][NextToGoogle]_vars

(* ------------------------------------------------------------------ *)
(* Claims about the orchestrator                                       *)
(* ------------------------------------------------------------------ *)
WriteOps == {"create_page", "update_page", "update_contact"}

\* the calls of the running invocation made for the record at position r
CallsFor(r) == {k \in DOMAIN calls : calls[k].pass = pass /\ calls[k].rec = r}

\* the calls of the running invocation that failed for one record
FailedRecordCalls ==
    {k \in DOMAIN calls : calls[k].pass = pass /\ calls[k].rec > 0 /\ ~calls[k].ok}

\* C1: in sync_from_google, a get_page, update_page or create_page call that
\* fails for one incoming record appends exactly one error, every later record
\* of the fetched list is still processed, and the function returns its
\* statistics instead of raising.
C1_RecordFailureIsContained ==
    /\ pc \in {"sync_from_google", "done"} =>
        /\ Len(google_stats.errors) = Cardinality(FailedRecordCalls)
        /\ google_stats.created + google_stats.updated + Len(google_stats.errors)
                = i - 1
        /\ \A r \in 1..(i - 1) : CallsFor(r) # {}
    /\ pc = "done" => i = Len(google_contacts) + 1
    /\ pc = "raised" => calls[Len(calls)].rec = 0

\* the first of two incoming records fails, the second is written, and the
\* function has returned
C1_Witness ==
    /\ pc = "done"
    /\ Len(google_contacts) = 2
    /\ \E k \in CallsFor(1) : ~calls[k].ok
    /\ \E k \in CallsFor(2) : calls[k].ok /\ calls[k].op \in WriteOps
    /\ Len(google_stats.errors) = 1

\* the records of the fetched database listing that have no identity key
WithoutIdentityKey ==
    {r \in DOMAIN notion_pages : from_notion_page(notion_pages[r]).google_id = <<>>}

\* C2: in sync_to_google, a database record without identity key is never sent
\* to the remote service (no get_contact, no update_contact for it) and counts
\* as skipped exactly once.
C2_NoIdentityKeyNeverSent ==
    pc \in {"sync_to_google", "done"} =>
        /\ \A r \in WithoutIdentityKey : CallsFor(r) = {}
        /\ notion_stats.skipped = Cardinality({r \in WithoutIdentityKey : r < i})
        /\ \A k \in DOMAIN calls :
                calls[k].op \in {"get_contact", "update_contact"} => calls[k].rn # <<>>

\* a record without identity key was skipped and the record after it, which has
\* one, was sent
C2_Witness ==
    /\ pc = "done"
    /\ Len(notion_pages) = 2
    /\ WithoutIdentityKey = {1}
    /\ notion_stats.skipped = 1
    /\ \E k \in CallsFor(2) : calls[k].op = "update_contact" /\ calls[k].ok

\* C5: once a page carries a non-empty Google ID, no step of any sync pass
\* writes a different Google ID onto it.
C5_IdentityKeyIsStable ==
    [][\A p \in DOMAIN notion :
            PageIdentityKey(notion[p]) # <<>>
                => PageIdentityKey(notion'[p]) = PageIdentityKey(notion[p])]_vars

\* C6: after sync_to_google has updated the remote record of a database record
\* whose suppress-birthday flag is set, the remote record has no birth date.
C6_SuppressionDeletesRemoteBirthday ==
    pc = "done" =>
        \A r \in DOMAIN notion_pages :
            (/\ from_notion_page(notion_pages[r]).hide_birthday
             /\ \E k \in CallsFor(r) : calls[k].op = "update_contact" /\ calls[k].ok)
                => google[PersonAt(from_notion_page(notion_pages[r]).google_id)].birthdays
                        = <<>>

\* C7: when two full passes run in sequence and no call fails, the second pass
\* issues no create_page, update_page or update_contact.
C7_SecondPassWritesNothing ==
    (\A k \in DOMAIN calls : calls[k].ok) =>
        \A k \in DOMAIN calls : calls[k].pass = 2 => calls[k].op \notin WriteOps

SharedFields == {"primary_email", "primary_phone", "company", "address", "website"}

\* C8: after a full pass in which no call fails, a value a database record with
\* identity key held in a shared field that the matching remote record left
\* empty is on the remote record and still on the database record.
C8_EnrichmentIsPushed ==
    (pc = "done" /\ \A k \in DOMAIN calls : calls[k].pass = pass => calls[k].ok) =>
        \A p \in DOMAIN before.notion, g \in DOMAIN before.google, f \in SharedFields :
            LET was == from_notion_page(before.notion[p])
            IN  (/\ was.google_id = before.google[g].resourceName
                 /\ Truthy(was[f])
                 /\ ~Truthy(from_google_api(before.google[g])[f]))
                    => /\ from_google_api(google[g])[f] = was[f]
                       /\ from_notion_page(notion[p])[f] = was[f]

\* C9: an update of an existing page by sync_from_google leaves the page's
\* suppress-birthday flag, tags, notes and last-contacted date as they were
\* when get_page read them.
C9_DatabaseOnlyFieldsKept ==
    [][\A p \in DOMAIN notion :
            /\ notion'[p].HideBirthday = notion[p].HideBirthday
            /\ notion'[p].Tags = notion[p].Tags
            /\ notion'[p].Notes = notion[p].Notes
            /\ notion'[p].LastContacted.start = notion[p].LastContacted.start]_vars

(* ------------------------------------------------------------------ *)
(* The order of the phases of full_sync                                *)
(* ------------------------------------------------------------------ *)
\* the calls of the running invocation, in the order they completed
ThisPass == {k \in DOMAIN calls : calls[k].pass = pass}

Phase2Ops == {"get_contacts", "get_page", "update_page", "create_page"}
Phase3Ops == {"get_contact", "update_contact"}

\* the call is the index-building listing: the first call of the invocation
IsIndexListing(k) ==
    /\ calls[k].op = "query_database_all"
    /\ \A h \in ThisPass : h >= k

\* the call belongs to sync_to_google: its database listing, a get_contact or
\* an update_contact
IsPhase3Call(k) ==
    \/ calls[k].op \in Phase3Ops
    \/ calls[k].op = "query_database_all" /\ ~IsIndexListing(k)

\* C14: in full_sync no database write of phase 2 is issued before the index
\* listing has finished, and no phase-3 call (database listing, get_contact,
\* update_contact) is issued before every incoming record of phase 2 has had
\* its last call; no phase-2 call follows a phase-3 call.
C14_PhasesRunInOrder ==
    \A k \in ThisPass :
        /\ calls[k].op \in Phase2Ops =>
                \E h \in ThisPass : h < k /\ IsIndexListing(h) /\ calls[h].ok
        /\ IsPhase3Call(k) =>
                /\ \E h \in ThisPass : h < k /\ calls[h].op = "get_contacts" /\ calls[h].ok
                /\ \A r \in DOMAIN google_contacts :
                        \E h \in ThisPass :
                            h < k /\ calls[h].rec = r /\ calls[h].op \in Phase2Ops
                /\ \A l \in ThisPass : l > k => calls[l].op \notin Phase2Ops

\* full_sync has returned after writing two incoming records to the database
\* and then updating a remote record
C14_Witness ==
    /\ pc = "done"
    /\ Len(google_contacts) = 2
    /\ \A r \in DOMAIN google_contacts :
            \E k \in ThisPass : calls[k].rec = r /\ calls[k].op \in WriteOps \ {"update_contact"}
                                    /\ calls[k].ok
    /\ \E k \in ThisPass : calls[k].op = "update_contact" /\ calls[k].ok

(* ------------------------------------------------------------------ *)
(* Failures in sync_to_google                                          *)
(* ------------------------------------------------------------------ *)
\* the successful update_contact calls of the running invocation
RemoteUpdates == {k \in ThisPass : calls[k].op = "update_contact" /\ calls[k].ok}

\* C15: in sync_to_google, a get_contact or update_contact that fails for one
\* database record appends one error and does not count the record as updated;
\* every later record is still processed and the function returns its
\* statistics.
C15_RemoteFailureIsContained ==
    /\ pc \in {"sync_to_google", "done"} =>
        /\ Len(notion_stats.errors) = Cardinality(FailedRecordCalls)
        /\ notion_stats.updated = Cardinality(RemoteUpdates)
        /\ \A r \in 1..(i - 1) :
                /\ r \in WithoutIdentityKey \/ CallsFor(r) # {}
                /\ (\E k \in CallsFor(r) : ~calls[k].ok)
                        => \A k \in CallsFor(r) : k \notin RemoteUpdates
    /\ pc = "done" => i = Len(notion_pages) + 1
    /\ pc = "raised" => calls[Len(calls)].rec = 0

\* the remote call for the first of two database records fails, the second
\* record's remote counterpart is updated, and the function has returned
C15_Witness ==
    /\ pc = "done"
    /\ Len(notion_pages) = 2
    /\ \E k \in CallsFor(1) : ~calls[k].ok
    /\ \E k \in CallsFor(2) : k \in RemoteUpdates
    /\ Len(notion_stats.errors) = 1
    /\ notion_stats.updated = 1

(* ------------------------------------------------------------------ *)
(* Which failures reach the caller                                     *)
(* ------------------------------------------------------------------ *)
\* the failed calls of the running invocation made outside the per-record
\* loops: the index listing, get_contacts, the listing of sync_to_google
SetupFailures == {k \in ThisPass : calls[k].rec = 0 /\ ~calls[k].ok}

\* C16: a failing index listing, remote listing or database listing raises to
\* the caller, and nothing else does; when the index listing of full_sync
\* fails, no write to either side is issued and no later phase runs.
C16_OnlySetupFailuresPropagate ==
    /\ \A k \in SetupFailures : pc = "raised" /\ k = Len(calls)
    /\ pc = "raised" => Len(calls) \in SetupFailures
    /\ \A k \in SetupFailures :
            IsIndexListing(k) =>
                /\ notion = before.notion
                /\ google = before.google
                /\ \A h \in ThisPass : calls[h].op = "query_database_all"

\* the index listing of full_sync failed with records on both sides
C16_Witness ==
    /\ pc = "raised"
    /\ notion # <<>>
    /\ google # <<>>
    /\ Len(calls) \in SetupFailures
    /\ IsIndexListing(Len(calls))

(* ------------------------------------------------------------------ *)
(* Normalisation of the email and phone keys                           *)
(* ------------------------------------------------------------------ *)
\* a and b differ at most in the case of their letters
SameLetters(a, b) ==
    /\ Len(a) = Len(b)
    /\ \A k \in DOMAIN a :
            \/ a[k] = b[k]
            \/ \E m \in DOMAIN UPPER : {a[k], b[k]} = {UPPER[m], LOWER[m]}

\* the digits of s, in order
RECURSIVE DigitsOf(_)
DigitsOf(s) ==
    IF s = <<>> THEN <<>>
    ELSE IF Head(s) \in {"0", "1", "2", "3", "4", "5", "6", "7", "8", "9"}
         THEN <<Head(s)>> \o DigitsOf(Tail(s))
         ELSE DigitsOf(Tail(s))

\* the incoming record's identity key is that of no listed page
NoIdentityMatch == \A j \in DOMAIN notion : PageIdentityKey(notion[j]) # contact.google_id

\* the incoming record's email is, up to letter case, that of no listed page
NoEmailMatch ==
    \/ ~Truthy(contact.primary_email)
    \/ \A j \in DOMAIN notion :
            Truthy(notion[j].PrimaryEmail)
                => ~SameLetters(notion[j].PrimaryEmail, contact.primary_email)

\* C17: for an incoming record without a matching identity key, a listed
\* primary email that differs from the incoming one only in letter case
\* resolves to the same handle: the lookup returns a page with that email.
C17_EmailMatchIgnoresCase ==
    (/\ pc = "looked_up"
     /\ NoIdentityMatch
     /\ Truthy(contact.primary_email)
     /\ \E j \in DOMAIN notion :
            /\ Truthy(notion[j].PrimaryEmail)
            /\ SameLetters(notion[j].PrimaryEmail, contact.primary_email))
        => (/\ found # NoPage
            /\ Truthy(notion[found].PrimaryEmail)
            /\ SameLetters(notion[found].PrimaryEmail, contact.primary_email))

\* the incoming email and the listed one are different strings, equal up to
\* letter case, and the page is found
C17_Witness ==
    /\ pc = "looked_up"
    /\ Len(notion) = 1
    /\ NoIdentityMatch
    /\ Truthy(contact.primary_email)
    /\ Truthy(notion[1].PrimaryEmail)
    /\ notion[1].PrimaryEmail # contact.primary_email
    /\ SameLetters(notion[1].PrimaryEmail, contact.primary_email)
    /\ found = notion[1].id

\* C18: with no identity-key and no email match, an indexed primary phone (one
\* with at least one digit) and an incoming primary phone with the same digits
\* in the same order resolve to the same handle, whatever other characters
\* they contain.
C18_PhoneMatchIgnoresFormatting ==
    (/\ pc = "looked_up"
     /\ NoIdentityMatch
     /\ NoEmailMatch
     /\ Truthy(contact.primary_phone)
     /\ \E j \in DOMAIN notion :
            /\ Truthy(notion[j].PrimaryPhone)
            /\ DigitsOf(notion[j].PrimaryPhone) # <<>>
            /\ DigitsOf(notion[j].PrimaryPhone) = DigitsOf(contact.primary_phone))
        => (/\ found # NoPage
            /\ Truthy(notion[found].PrimaryPhone)
            /\ DigitsOf(notion[found].PrimaryPhone) = DigitsOf(contact.primary_phone))

\* the incoming phone and the listed one are different strings with the same
\* digits, and the page is found
C18_Witness ==
    /\ pc = "looked_up"
    /\ Len(notion) = 1
    /\ NoIdentityMatch
    /\ NoEmailMatch
    /\ Truthy(contact.primary_phone)
    /\ Truthy(notion[1].PrimaryPhone)
    /\ notion[1].PrimaryPhone # contact.primary_phone
    /\ DigitsOf(notion[1].PrimaryPhone) = DigitsOf(contact.primary_phone)
    /\ found = notion[1].id

(* ------------------------------------------------------------------ *)
(* The lookup of the two phone numbers of the specification's example  *)
(* ------------------------------------------------------------------ *)
\* "+1 (555) 123-4567"
FormattedPhone ==
    <<"+", "1", " ", "(", "5", "5", "5", ")", " ", "1", "2", "3", "-", "4", "5", "6", "7">>
\* "5551234567"
PlainPhone == <<"5", "5", "5", "1", "2", "3", "4", "5", "6", "7">>

PhonePages ==
    { [Page(NoPage) EXCEPT !.PrimaryPhone = phone, !.FirstName = << name >>] :
        phone \in {None, FormattedPhone, PlainPhone},
        name \in {<<"A", "n">>, <<"B", "o">>} }

PhoneContacts ==
    { [Contact(<<>>, name, <<>>) EXCEPT !.primary_phone = phone] :
        phone \in {None, FormattedPhone, PlainPhone},
        name \in {<<"A", "n">>, <<"C", "y">>} }

InitPhone ==
    /\ notion \in {WithIds(q) : q \in SeqsUpTo(PhonePages, MaxListing)}
    /\ contact \in PhoneContacts
    /\ index = EmptyIndex
    /\ found = NoPage
    /\ pc = "start"
    /\ google = <<>>
    /\ google_contact = Contact(<<>>, <<>>, <<>>)
    /\ notion_contact = Contact(<<>>, <<>>, <<>>)
    /\ merged = Contact(<<>>, <<>>, <<>>)
    /\ InitRun

SpecPhone == InitPhone /\ [][NextIndex]_vars

\* C19: a page whose primary phone is one of "+1 (555) 123-4567" and
\* "5551234567" is found by an incoming record, without identity key or email,
\* whose primary phone is the other: the lookup returns a page with one of the
\* two phones.
C19_ExamplePhonesResolveIdentically ==
    pc = "looked_up" =>
        \A j \in DOMAIN notion :
            {notion[j].PrimaryPhone, contact.primary_phone} = {FormattedPhone, PlainPhone}
                => (/\ found # NoPage
                    /\ notion[found].PrimaryPhone \in {FormattedPhone, PlainPhone})

(* ------------------------------------------------------------------ *)
(* sync_from_google against an empty database                          *)
(* ------------------------------------------------------------------ *)
\* a person with the n-th resource name, a given name and at most one email
PersonNamed(n, given, email) ==
    [Person(ResourceNames[n]) EXCEPT
        !.names = <<[givenName |-> given, familyName |-> <<>>]>>,
        !.emailAddresses =
            IF email = None THEN <<>> ELSE <<[value |-> email, type |-> "work"]>>]

\* the remote datasets: at most MaxContacts persons with pairwise distinct
\* resource names
RemoteDatasets ==
    UNION { { [k \in 1..n |-> PersonNamed(k, given[k], email[k])] :
                given \in [1..n -> {<<"A", "n">>, <<"C", "y">>}],
                email \in [1..n -> {None, <<"a", "@", "x">>, <<"A", "@", "x">>,
                                   <<"b", "@", "x">>}] } :
            n \in 0..MaxContacts }

InitEmptyDatabase ==
    /\ notion = <<>>
    /\ google \in RemoteDatasets
    /\ before = [notion |-> notion, google |-> google]
    /\ index = EmptyIndex
    /\ pc = "start"
    /\ mode = "google_only"
    /\ pass = 1
    /\ today = Today
    /\ google_contacts = <<>>
    /\ notion_pages = <<>>
    /\ i = 1
    /\ google_stats = SyncStats
    /\ notion_stats = SyncStats
    /\ calls = <<>>
    /\ failures = 0
    /\ contact = Contact(<<>>, <<>>, <<>>)
    /\ found = NoPage
    /\ google_contact = Contact(<<>>, <<>>, <<>>)
    /\ notion_contact = Contact(<<>>, <<>>, <<>>)
    /\ merged = Contact(<<>>, <<>>, <<>>)
    /\ args = ArgsFor(mode)
    /\ exit_code = <<>>
    /\ output = <<>>
    /\ InitAdapters

SpecEmptyDatabase == InitEmptyDatabase /\ [][NextFromGoogle]_vars

\* the remote records have pairwise distinct identity keys and pairwise
\* distinct primary emails
DistinctKeysAndEmails ==
    \A a, b \in DOMAIN google :
        a # b => /\ google[a].resourceName # google[b].resourceName
                 /\ from_google_api(google[a]).primary_email
                        # from_google_api(google[b]).primary_email

\* the calls of the running invocation with operation op
CallsOf(op) == {k \in ThisPass : calls[k].op = op}

\* C20: against an empty database, sync_from_google over n remote records
\* with pairwise distinct identity keys and primary emails, no call failing,
\* issues n create_page calls and no update_page and returns created = n,
\* updated = 0 and no errors.
C20_EmptyDatabaseOnlyCreates ==
    (/\ pc = "done"
     /\ before.notion = <<>>
     /\ DistinctKeysAndEmails
     /\ \A k \in ThisPass : calls[k].ok)
        => (/\ Cardinality(CallsOf("create_page")) = Len(google)
            /\ CallsOf("update_page") = {}
            /\ google_stats.created = Len(google)
            /\ google_stats.updated = 0
            /\ google_stats.errors = <<>>)

(* ------------------------------------------------------------------ *)
(* Suppression when the remote record has no birth date                *)
(* ------------------------------------------------------------------ *)
\* the database record r of the fetched listing, as sync_to_google parses it
ListedContact(r) == from_notion_page(notion_pages[r])

\* the remote record with the identity key of r, as it was when the invocation
\* began
RemoteBefore(r) ==
    LET hits == {g \in DOMAIN before.google :
                    before.google[g].resourceName = ListedContact(r).google_id}
    IN  from_google_api(before.google[CHOOSE g \in hits : TRUE])

\* r has an identity key that no other listed record has and the remote
\* service knows
OnlyRecordOfItsKey(r) ==
    /\ ListedContact(r).google_id # <<>>
    /\ \A q \in DOMAIN notion_pages :
            q # r => ListedContact(q).google_id # ListedContact(r).google_id
    /\ \E g \in DOMAIN before.google :
            before.google[g].resourceName = ListedContact(r).google_id

\* the only thing the database record r could change on its remote record is
\* the birth date: no other field is empty remotely and filled in the database
SuppressedBirthdayIsOnlyDifference(r) ==
    /\ OnlyRecordOfItsKey(r)
    /\ ListedContact(r).hide_birthday
    /\ ListedContact(r).birthday # NoDate
    /\ RemoteBefore(r).birthday = NoDate
    /\ \A f \in RemoteFields \ (NameFields \cup {"birthday"}) :
            Truthy(RemoteBefore(r)[f]) \/ ~Truthy(ListedContact(r)[f])

\* C21: for a database record with identity key, the suppress-birthday flag
\* and a birth date, whose remote record has no birth date and nothing else to
\* fill, the merged birth date is null and sync_to_google issues no
\* update_contact (updated counts only the update_contact calls made).
C21_SuppressedBirthdayIsNotWritten ==
    pc \in {"sync_to_google", "done"} =>
        /\ \A r \in 1..(i - 1) :
                SuppressedBirthdayIsOnlyDifference(r) =>
                    /\ merge_contacts(RemoteBefore(r), ListedContact(r)).birthday = NoDate
                    /\ \A k \in CallsFor(r) : calls[k].op # "update_contact"
        /\ notion_stats.updated = Cardinality(RemoteUpdates)

\* such a record was fetched from the remote service and left alone
C21_Witness ==
    /\ pc = "done"
    /\ \E r \in DOMAIN notion_pages :
            /\ SuppressedBirthdayIsOnlyDifference(r)
            /\ \E k \in CallsFor(r) : calls[k].op = "get_contact" /\ calls[k].ok
            /\ \A k \in CallsFor(r) : calls[k].op # "update_contact"
    /\ notion_stats.updated = 0

(* ------------------------------------------------------------------ *)
(* What sync_to_google sends, and what it depends on                   *)
(* ------------------------------------------------------------------ *)
DatabaseOnlyKeys == {"hide_birthday", "tags", "notes", "last_contacted"}

\* the page with its tags, notes and last-contacted date blanked
WithoutEnrichment(page) ==
    [page EXCEPT !.Tags = <<>>, !.Notes = <<>>, !.LastContacted = NoDateProp]

\* the update_contact requests, in order, of a failure-free sync_to_google
\* over pages[k..] against the address book people
RECURSIVE RequestsOf(_, _, _)
RequestsOf(pages, people, k) ==
    IF k > Len(pages) THEN <<>>
    ELSE LET nc == from_notion_page(pages[k])
             hits == {g \in DOMAIN people : people[g].resourceName = nc.google_id}
             gc == from_google_api(people[CHOOSE g \in hits : TRUE])
             merged_contact == merge_contacts(gc, nc)
             request == update_contact(nc.google_id, merged_contact)
         IN  IF ~Truthy(nc.google_id) \/ hits = {}
                \/ to_google_person(gc) = to_google_person(merged_contact)
             THEN RequestsOf(pages, people, k + 1)
             ELSE <<request>> \o RequestsOf(pages, updateContact(people, request), k + 1)

IsUpdateContact(call) == call.op = "update_contact"

\* the update_contact requests of the call log, in order
RequestsSent ==
    LET sent == SelectSeq(calls, IsUpdateContact)
    IN  [k \in DOMAIN sent |-> sent[k].request]

\* C22: the update_contact calls of sync_to_google and their payloads are the
\* ones the same pass issues when every database record's tags, notes and
\* last-contacted date are blanked, so two runs that differ only in these
\* issue the same calls; no payload has a key for a database-only attribute.
C22_DatabaseOnlyNeverSent ==
    /\ (pc = "done" /\ failures = 0) =>
            RequestsSent
                = RequestsOf([r \in DOMAIN notion_pages |->
                                    WithoutEnrichment(notion_pages[r])],
                             before.google, 1)
    /\ \A k \in DOMAIN RequestsSent :
            DOMAIN RequestsSent[k].json \cap DatabaseOnlyKeys = {}

\* a database record with tags, notes and a last-contacted date had its remote
\* record updated
C22_Witness ==
    /\ pc = "done"
    /\ failures = 0
    /\ \E r \in DOMAIN notion_pages :
            /\ notion_pages[r].Tags # <<>>
            /\ notion_pages[r].Notes # <<>>
            /\ notion_pages[r].LastContacted # NoDateProp
            /\ \E k \in CallsFor(r) : k \in RemoteUpdates

(* ------------------------------------------------------------------ *)
(* What a recorded error says about its record                         *)
(* ------------------------------------------------------------------ *)
\* the failed per-record calls of the running invocation among ops, in order
FailedCalls(ops) ==
    SelectSeq(calls, LAMBDA call : call.pass = pass /\ call.rec > 0
                                   /\ ~call.ok /\ call.op \in ops)

\* the record sync_from_google was processing when the call failed
IncomingOf(call) == google_contacts[call.rec]

\* the record sync_to_google was processing when the call failed
ListedOf(call) == from_notion_page(notion_pages[call.rec])

\* the message carries the first and last name of the record
NamesRecord(err, rec) ==
    /\ err.first_name = rec.first_name
    /\ err.last_name = rec.last_name

\* the message carries the identity key of the record
NamesIdentityKey(err, rec) ==
    /\ "google_id" \in DOMAIN err
    /\ err.google_id = rec.google_id

\* C23 (as stated): every error recorded for a failed record by
\* sync_from_google or sync_to_google carries both the display name and the
\* identity key of that record.
C23_ErrorsIdentifyTheRecord ==
    /\ \A e \in DOMAIN google_stats.errors :
            /\ e <= Len(FailedCalls(Phase2Ops))
            /\ NamesRecord(google_stats.errors[e], IncomingOf(FailedCalls(Phase2Ops)[e]))
            /\ NamesIdentityKey(google_stats.errors[e], IncomingOf(FailedCalls(Phase2Ops)[e]))
    /\ \A e \in DOMAIN notion_stats.errors :
            /\ e <= Len(FailedCalls(Phase3Ops))
            /\ NamesRecord(notion_stats.errors[e], ListedOf(FailedCalls(Phase3Ops)[e]))
            /\ NamesIdentityKey(notion_stats.errors[e], ListedOf(FailedCalls(Phase3Ops)[e]))

(* ------------------------------------------------------------------ *)
(* The command-line front end: the sync command                        *)
(* ------------------------------------------------------------------ *)
\* how many errors of a phase the summary lists
ErrorsShown == 5

Min(a, b) == IF a < b THEN a ELSE b

\* click.echo(text)
Echo(text) == [source |-> "echo", text |-> text]

\* the sync command running every check as a warning only
sync_command_Unchecked(a) ==
    [output |-> IF a.dry_run THEN <<Echo("DRY RUN MODE")>> ELSE <<>>,
     exit_code |-> <<>>,
     pc |-> "start",
     mode |-> IF a.notion_only THEN "notion_only"
              ELSE IF a.google_only THEN "google_only" ELSE "full"]

\* sync(): from the options to the start of a syncer call, or to an exit
sync_command(a) ==
    LET banner == IF a.dry_run THEN <<Echo("DRY RUN MODE")>> ELSE <<>>
        Exit(code, text) ==
            [output |-> banner \o <<Echo(text)>>, exit_code |-> <<code>>,
             pc |-> "exited", mode |-> "full"]
    IN  IF a.google_only /\ a.notion_only
        THEN Exit(1, "Error: Cannot use both --google-only and --notion-only")
        ELSE IF a.settings = "error" THEN Exit(1, "Error loading settings")
        ELSE IF a.settings = "no_refresh_token"
        THEN Exit(1, "Error: GOOGLE_REFRESH_TOKEN not set")
        ELSE IF a.dry_run THEN Exit(0, "Dry run not implemented yet - exiting")
        ELSE [output |-> banner, exit_code |-> <<>>, pc |-> "start",
              mode |-> IF a.notion_only THEN "notion_only"
                       ELSE IF a.google_only THEN "google_only" ELSE "full"]

\* logger.error for each recorded error of a phase
error_log(stats) ==
    [k \in DOMAIN stats.errors |->
        [source |-> "log", text |-> "Error", error |-> stats.errors[k]]]

\* what sync_from_google logs: its errors, then its counts
google_log(stats) ==
    error_log(stats)
        \o <<[source |-> "log", text |-> "sync complete", phase |-> "google",
              counts |-> [created |-> stats.created, updated |-> stats.updated,
                          errors |-> Len(stats.errors)]]>>

\* what sync_to_google logs: its errors, then its counts
notion_log(stats) ==
    error_log(stats)
        \o <<[source |-> "log", text |-> "sync complete", phase |-> "notion",
              counts |-> [updated |-> stats.updated, skipped |-> stats.skipped,
                          errors |-> Len(stats.errors)]]>>

\* the summary's error details: the first ErrorsShown errors and how many more
error_details(errors) ==
    IF errors = <<>> THEN <<>>
    ELSE <<[source |-> "echo", text |-> "Error details",
            shown |-> SubSeq(errors, 1, Min(ErrorsShown, Len(errors)))]>>
         \o IF Len(errors) > ErrorsShown
            THEN <<[source |-> "echo", text |-> "... and more",
                    more |-> Len(errors) - ErrorsShown]>>
            ELSE <<>>

\* the summary of full mode, phase by phase
google_summary(stats) ==
    <<[source |-> "echo", text |-> "Google -> Notion", phase |-> "google",
       counts |-> [created |-> stats.created, updated |-> stats.updated,
                   errors |-> Len(stats.errors)]]>>
        \o error_details(stats.errors)

notion_summary(stats) ==
    <<[source |-> "echo", text |-> "Notion -> Google", phase |-> "notion",
       counts |-> [updated |-> stats.updated, skipped |-> stats.skipped,
                   errors |-> Len(stats.errors)]]>>
        \o error_details(stats.errors)

\* everything a completed sync in direction m has reported
sync_report(m, gstats, nstats) ==
    IF m = "notion_only" THEN notion_log(nstats)
    ELSE IF m = "google_only" THEN google_log(gstats)
    ELSE google_log(gstats) \o notion_log(nstats) \o <<Echo("SYNC COMPLETE")>>
            \o google_summary(gstats) \o notion_summary(nstats)

\* sync() up to the syncer's first call
SyncCommand ==
    /\ pc = "invoked"
    /\ output' = output \o sync_command(args).output
    /\ exit_code' = sync_command(args).exit_code
    /\ pc' = sync_command(args).pc
    /\ mode' = sync_command(args).mode
    /\ UNCHANGED <<notion, google, index, pass, today, google_contacts, notion_pages,
                   i, google_stats, notion_stats, calls, failures, before, unitVars,
                   args>>
    /\ UNCHANGED adapterVars

\* run() returns: the summary is printed in full mode, the command exits with 0
SyncExit ==
    /\ pc = "done"
    /\ output' = output \o sync_report(mode, google_stats, notion_stats)
    /\ exit_code' = <<0>>
    /\ pc' = "exited"
    /\ UNCHANGED <<notion, google, index, runVars, unitVars, args>>
    /\ UNCHANGED adapterVars

\* run() raised: the error is printed and the command exits with 1
SyncFailed ==
    /\ pc = "raised"
    /\ output' = output \o <<Echo("Error")>>
    /\ exit_code' = <<1>>
    /\ pc' = "exited"
    /\ UNCHANGED <<notion, google, index, runVars, unitVars, args>>
    /\ UNCHANGED adapterVars

Options ==
    [dry_run : BOOLEAN, google_only : BOOLEAN, notion_only : BOOLEAN,
     settings : {"loaded", "error", "no_refresh_token"}]

\* the sync command is invoked with any options
InitCli ==
    /\ notion \in {WithIds(q) : q \in SeqsUpTo(StartPages, MaxPages)}
    /\ google \in AddressBooks
    /\ before = [notion |-> notion, google |-> google]
    /\ index = EmptyIndex
    /\ pc = "invoked"
    /\ args \in Options
    /\ exit_code = <<>>
    /\ output = <<>>
    /\ mode = "full"
    /\ pass = 1
    /\ today = Today
    /\ google_contacts = <<>>
    /\ notion_pages = <<>>
    /\ i = 1
    /\ google_stats = SyncStats
    /\ notion_stats = SyncStats
    /\ calls = <<>>
    /\ failures = 0
    /\ contact = Contact(<<>>, <<>>, <<>>)
    /\ found = NoPage
    /\ google_contact = Contact(<<>>, <<>>, <<>>)
    /\ notion_contact = Contact(<<>>, <<>>, <<>>)
    /\ merged = Contact(<<>>, <<>>, <<>>)
    /\ InitAdapters

NextCli ==
    \/ SyncCommand
    \/ Initialize
    \/ SyncFromGoogleFetch
    \/ SyncFromGoogleRecord
    \/ SyncFromGoogleReturn
    \/ SyncToGoogleFetch
    \/ SyncToGoogleRecord
    \/ SyncToGoogleReturn
    \/ SyncExit
    \/ SyncFailed

SpecCli == InitCli /\ [][NextCli]_vars

(* ------------------------------------------------------------------ *)
(* The report of a completed sync, for any statistics                  *)
(* ------------------------------------------------------------------ *)
\* n recorded errors, pairwise different
ErrorList(n) ==
    [k \in 1..n |-> [text |-> "Failed to sync", first_name |-> [j \in 1..k |-> "x"],
                     last_name |-> <<>>, e |-> "update_page"]]

\* the statistics sync_from_google can return
GoogleStats ==
    {[created |-> c, updated |-> u, skipped |-> 0, errors |-> ErrorList(n)] :
        c \in 0..1, u \in 0..1, n \in 0..MaxErrors}

\* the statistics sync_to_google can return
NotionStats ==
    {[created |-> 0, updated |-> u, skipped |-> k, errors |-> ErrorList(n)] :
        u \in 0..1, k \in 0..1, n \in 0..MaxErrors}

\* run() is about to return, in any direction and with any statistics
InitReport ==
    /\ mode \in {"full", "google_only", "notion_only"}
    /\ args = ArgsFor(mode)
    /\ google_stats \in IF mode = "notion_only" THEN {SyncStats} ELSE GoogleStats
    /\ notion_stats \in IF mode = "google_only" THEN {SyncStats} ELSE NotionStats
    /\ pc = "done"
    /\ exit_code = <<>>
    /\ output = <<>>
    /\ notion = <<>>
    /\ google = <<>>
    /\ before = [notion |-> <<>>, google |-> <<>>]
    /\ index = EmptyIndex
    /\ pass = 1
    /\ today = Today
    /\ google_contacts = <<>>
    /\ notion_pages = <<>>
    /\ i = 1
    /\ calls = <<>>
    /\ failures = 0
    /\ contact = Contact(<<>>, <<>>, <<>>)
    /\ found = NoPage
    /\ google_contact = Contact(<<>>, <<>>, <<>>)
    /\ notion_contact = Contact(<<>>, <<>>, <<>>)
    /\ merged = Contact(<<>>, <<>>, <<>>)
    /\ InitAdapters

NextReport == SyncExit

SpecReport == InitReport /\ [][NextReport]_vars

\* the sync command completed a sync
Completed == pc = "exited" /\ exit_code = <<0>> /\ ~args.dry_run

\* the phases a sync in direction m runs
PhasesRun(m) ==
    IF m = "full" THEN {"google", "notion"}
    ELSE IF m = "google_only" THEN {"google"} ELSE {"notion"}

\* the output has the counts of the phase at position k, followed by the
\* first ErrorsShown errors and by the number of the others
ReportedAt(k, phase, stats) ==
    /\ "counts" \in DOMAIN output[k]
    /\ output[k].phase = phase
    /\ \A f \in {"created", "updated", "skipped"} :
            /\ f \in DOMAIN output[k].counts => output[k].counts[f] = stats[f]
            /\ stats[f] # 0 => f \in DOMAIN output[k].counts
    /\ stats.errors # <<>> =>
            /\ k + 1 <= Len(output)
            /\ "shown" \in DOMAIN output[k + 1]
            /\ Len(output[k + 1].shown) <= ErrorsShown
            /\ \A e \in DOMAIN output[k + 1].shown :
                    output[k + 1].shown[e] = stats.errors[e]
            /\ Len(output[k + 1].shown) < Len(stats.errors) =>
                    /\ k + 2 <= Len(output)
                    /\ "more" \in DOMAIN output[k + 2]
                    /\ output[k + 2].more
                            = Len(stats.errors) - Len(output[k + 1].shown)

Reported(phase, stats) == \E k \in DOMAIN output : ReportedAt(k, phase, stats)

\* C24 (as stated): a completed sync reports, in each of the three modes, the
\* counts of each phase it ran together with the phase's errors, at most five
\* of them listed and the number of the others given.
C24_EveryModeReportsCountsAndErrors ==
    Completed =>
        /\ "google" \in PhasesRun(mode) => Reported("google", google_stats)
        /\ "notion" \in PhasesRun(mode) => Reported("notion", notion_stats)

\* C25: with --dry-run no request is issued to either service and the index
\* is not built; with both --google-only and --notion-only the command exits
\* with status 1 and no phase runs.
C25_DryRunAndConflictingFlagsDoNothing ==
    /\ args.dry_run =>
            /\ calls = <<>>
            /\ index = EmptyIndex
            /\ notion = before.notion
            /\ google = before.google
            /\ pc \in {"invoked", "exited"}
    /\ (args.google_only /\ args.notion_only) =>
            /\ calls = <<>>
            /\ pc \in {"invoked", "exited"}
            /\ pc = "exited" => exit_code = <<1>>

\* a dry run with working settings has returned
C25_Witness ==
    /\ pc = "exited"
    /\ args.dry_run
    /\ args.settings = "loaded"
    /\ ~(args.google_only /\ args.notion_only)
    /\ exit_code = <<0>>
    /\ calls = <<>>

(* ------------------------------------------------------------------ *)
(* When sync_to_google writes                                          *)
(* ------------------------------------------------------------------ *)
\* the calls a step appends to the call log
NewCalls == SubSeq(calls', Len(calls) + 1, Len(calls'))

Fetched == \E k \in DOMAIN NewCalls : NewCalls[k].op = "get_contact" /\ NewCalls[k].ok

Written == \E k \in DOMAIN NewCalls : NewCalls[k].op = "update_contact"

WrittenOk ==
    \E k \in DOMAIN NewCalls : NewCalls[k].op = "update_contact" /\ NewCalls[k].ok

\* the remote record the step fetches for the database record at position i
RemoteNow ==
    LET hits == {g \in DOMAIN google :
                    google[g].resourceName = from_notion_page(notion_pages[i]).google_id}
    IN  from_google_api(google[CHOOSE g \in hits : TRUE])

\* C26: in sync_to_google a database record with an identity key whose remote
\* record was fetched gets an update_contact call if and only if the
\* serialization of the merged record differs from the serialization of the
\* fetched one; no update_contact is issued without a fetch; and the updated
\* count grows exactly with each update_contact that succeeds.
C26_WritesExactlyWhenSerializationsDiffer ==
    [][(pc = "sync_to_google" /\ i' = i + 1) =>
        /\ Fetched =>
            (Written <=>
                to_google_person(RemoteNow)
                    # to_google_person(
                        merge_contacts(RemoteNow, from_notion_page(notion_pages[i]))))
        /\ Written => Fetched
        /\ notion_stats'.updated
                = notion_stats.updated + (IF WrittenOk THEN 1 ELSE 0)]_vars

\* one record was fetched and written, another was fetched and left alone
C26_Witness ==
    /\ pc = "done"
    /\ notion_stats.updated = 1
    /\ \E r \in DOMAIN notion_pages : \E k \in CallsFor(r) : k \in RemoteUpdates
    /\ \E r \in DOMAIN notion_pages :
            /\ \E k \in CallsFor(r) : calls[k].op = "get_contact" /\ calls[k].ok
            /\ \A k \in CallsFor(r) : calls[k].op # "update_contact"

(* ------------------------------------------------------------------ *)
(* sync --google-only when the remote listing repeats a key or an      *)
(* email and the database already holds a page of the key RN2          *)
(* ------------------------------------------------------------------ *)
\* a page synced earlier for the identity key RN2, without an email
SeedPage ==
    [Page(NoPage) EXCEPT !.FirstName = << <<"B", "o">> >>, !.GoogleID = <<RN2>>]

\* remote listings of at most MaxContacts persons; a resource name or an email
\* may occur twice
RepeatingDatasets ==
    UNION { { [k \in 1..n |->
                    [PersonNamed(1, <<"A", "n">>, email[k])
                        EXCEPT !.resourceName = rn[k]]] :
                rn \in [1..n -> {RN1, RN2}],
                email \in [1..n -> {None, <<"a", "@", "x">>, <<"A", "@", "x">>}] } :
            n \in 0..MaxContacts }

InitSeededDatabase ==
    /\ notion \in {<<>>, WithIds(<<SeedPage>>)}
    /\ google \in RepeatingDatasets
    /\ before = [notion |-> notion, google |-> google]
    /\ index = EmptyIndex
    /\ pc = "start"
    /\ mode = "google_only"
    /\ args = ArgsFor(mode)
    /\ exit_code = <<>>
    /\ output = <<>>
    /\ pass = 1
    /\ today = Today
    /\ google_contacts = <<>>
    /\ notion_pages = <<>>
    /\ i = 1
    /\ google_stats = SyncStats
    /\ notion_stats = SyncStats
    /\ calls = <<>>
    /\ failures = 0
    /\ contact = Contact(<<>>, <<>>, <<>>)
    /\ found = NoPage
    /\ google_contact = Contact(<<>>, <<>>, <<>>)
    /\ notion_contact = Contact(<<>>, <<>>, <<>>)
    /\ merged = Contact(<<>>, <<>>, <<>>)
    /\ InitAdapters

SpecSeededDatabase == InitSeededDatabase /\ [][NextFromGoogle]_vars

\* the page created for the incoming record at position r; NoPage when none was
CreatedFor(r) ==
    LET made == {k \in CallsFor(r) : calls[k].op = "create_page" /\ calls[k].ok}
    IN  IF made = {} THEN NoPage ELSE calls[CHOOSE k \in made : TRUE].page

SameIdentityKey(r, s) == google_contacts[r].google_id = google_contacts[s].google_id

SameEmail(r, s) ==
    /\ Truthy(google_contacts[r].primary_email)
    /\ Truthy(google_contacts[s].primary_email)
    /\ SameLetters(google_contacts[r].primary_email, google_contacts[s].primary_email)

\* the identity key of the record at s is that of a page listed when the pass
\* began or of an earlier record of the pass
KeySeenBefore(s) ==
    \/ \E j \in DOMAIN before.notion :
            PageIdentityKey(before.notion[j]) = google_contacts[s].google_id
    \/ \E t \in 1..(s - 1) :
            google_contacts[t].google_id = google_contacts[s].google_id

\* every call made for the record at s is a get_page or update_page of page p,
\* and when none fails the page is updated
ResolvesTo(s, p) ==
    /\ CallsFor(s) # {}
    /\ \A k \in CallsFor(s) :
            calls[k].op \in {"get_page", "update_page"} /\ calls[k].page = p
    /\ (\A k \in CallsFor(s) : calls[k].ok) =>
            \E k \in CallsFor(s) : calls[k].op = "update_page"

\* C27 (as stated): after sync_from_google created a page for an incoming
\* record, every later record of the pass with the same identity key or with
\* the same primary email up to letter case resolves to that page and is
\* updated, not created.
C27_LaterSameKeyOrEmailResolvesToCreated ==
    pc \in {"sync_from_google", "done"} =>
        \A r \in 1..(i - 1) : \A s \in (r + 1)..(i - 1) :
            (CreatedFor(r) # NoPage /\ (SameIdentityKey(r, s) \/ SameEmail(r, s)))
                => ResolvesTo(s, CreatedFor(r))

\* C27 (amended): after sync_from_google created a page for an incoming
\* record, every later record of the pass with the same identity key, or with
\* the same primary email up to letter case and an identity key that no listed
\* page and no earlier record carries, resolves to that page and is updated,
\* not created; created and updated count the successful writes.
C27_LaterRecordResolvesToCreated ==
    pc \in {"sync_from_google", "done"} =>
        /\ \A r \in 1..(i - 1) : \A s \in (r + 1)..(i - 1) :
            (/\ CreatedFor(r) # NoPage
             /\ \/ SameIdentityKey(r, s)
                \/ SameEmail(r, s) /\ ~KeySeenBefore(s))
                => ResolvesTo(s, CreatedFor(r))
        /\ google_stats.created
                = Cardinality({k \in CallsOf("create_page") : calls[k].ok})
        /\ google_stats.updated
                = Cardinality({k \in CallsOf("update_page") : calls[k].ok})

\* a page was created for the first record and the second one, with another
\* identity key and the same email in another letter case, updated it
C27_Witness ==
    /\ pc = "done"
    /\ Len(google_contacts) >= 2
    /\ CreatedFor(1) # NoPage
    /\ ~SameIdentityKey(1, 2)
    /\ SameEmail(1, 2)
    /\ google_contacts[1].primary_email # google_contacts[2].primary_email
    /\ ~KeySeenBefore(2)
    /\ \E k \in CallsFor(2) :
            calls[k].op = "update_page" /\ calls[k].ok /\ calls[k].page = CreatedFor(1)
    /\ google_stats.created = 1
    /\ google_stats.updated = 1

(* ------------------------------------------------------------------ *)
(* full_sync invoked again and again on a database whose pages the     *)
(* first pass rewrites                                                 *)
(* ------------------------------------------------------------------ *)
\* the address book: nobody, somebody without an email, and one more person
\* with an email
SmallAddressBooks ==
    {<<>>, <<PersonWithBirthday(1)>>, <<PersonWithBirthday(1), PersonWithEmail(2)>>}

InitRebuild ==
    /\ InitSync("full")
    /\ \A j \in DOMAIN notion :
            notion[j] \in {[EnrichedPage(<<RN1>>) EXCEPT !.id = j],
                           [SuppressedPage(<<>>) EXCEPT !.id = j]}
    /\ google \in SmallAddressBooks

SpecRebuild == InitRebuild /\ [][Next]_vars

(* ------------------------------------------------------------------ *)
(* What the index holds when initialize() has returned                 *)
(* ------------------------------------------------------------------ *)
\* the keys of one type the listing gives
KeysListed(KeyOf(_)) == {KeyOf(notion[j]) : j \in DOMAIN notion} \ {<<>>}

\* the map holds exactly the listed keys, each with a page that carries it
BuiltFromListing(map, KeyOf(_)) ==
    /\ DOMAIN map = KeysListed(KeyOf)
    /\ \A k \in DOMAIN map :
            \E j \in DOMAIN notion : KeyOf(notion[j]) = k /\ notion[j].id = map[k]

\* C28: when initialize() has returned, each of the four maps holds exactly
\* the keys of the listing it just read, whatever an earlier initialize() or an
\* earlier pass had registered; and in full_sync no record is processed before
\* the listing of the running invocation was read.
C28_IndexIsRebuiltFromScratch ==
    /\ pc = "initialized" =>
            /\ BuiltFromListing(index.google_id_to_page_id, PageIdentityKey)
            /\ BuiltFromListing(index.email_to_page_id, PageEmailKey)
            /\ BuiltFromListing(index.phone_to_page_id, PagePhoneKey)
            /\ BuiltFromListing(index.name_to_page_id, PageNameKey)
    /\ \A k \in ThisPass :
            calls[k].op # "query_database_all" =>
                \E h \in ThisPass :
                    h < k /\ calls[h].op = "query_database_all" /\ calls[h].ok

\* the second invocation has rebuilt the index; a page updated by the first
\* one lost its email, and the email is no longer a key
C28_Witness ==
    /\ pc = "initialized"
    /\ pass = 2
    /\ \E k \in DOMAIN calls :
            /\ calls[k].pass = 1
            /\ calls[k].op = "update_page"
            /\ calls[k].ok
            /\ ~Truthy(notion[calls[k].page].PrimaryEmail)
    /\ \A j \in DOMAIN notion : ~Truthy(notion[j].PrimaryEmail)
    /\ index.email_to_page_id = EmptyMap

(* ------------------------------------------------------------------ *)
(* initialize() alone, on any listing                                  *)
(* ------------------------------------------------------------------ *)
InitIndexBuild ==
    /\ notion \in {WithIds(q) : q \in SeqsUpTo(ListedPages, MaxListing)}
    /\ contact = Contact(<<>>, <<>>, <<>>)
    /\ index = EmptyIndex
    /\ found = NoPage
    /\ pc = "start"
    /\ google = <<>>
    /\ google_contact = Contact(<<>>, <<>>, <<>>)
    /\ notion_contact = Contact(<<>>, <<>>, <<>>)
    /\ merged = Contact(<<>>, <<>>, <<>>)
    /\ InitRun

NextIndexBuild == InitializeIndex

SpecIndexBuild == InitIndexBuild /\ [][NextIndexBuild]_vars

(* ------------------------------------------------------------------ *)
(* Listed pages that share a key                                       *)
(* ------------------------------------------------------------------ *)
\* every key of the type that occurs in the listing is mapped to the last
\* listed page that carries it
LastListedWins(map, KeyOf(_)) ==
    \A j \in DOMAIN notion :
        KeyOf(notion[j]) # <<>> =>
            Get(map, KeyOf(notion[j])) = LastListed(KeyOf, KeyOf(notion[j]))

\* two listed pages have the same non-empty key of the type
SharedKey(KeyOf(_)) ==
    \E j, h \in DOMAIN notion :
        j < h /\ KeyOf(notion[j]) # <<>> /\ KeyOf(notion[j]) = KeyOf(notion[h])

\* C29: once the index is built, a key that several listed pages share, of any
\* of the four key types, is mapped to the page listed last among them.
C29_RepeatedKeyGoesToLastListed ==
    pc \in {"indexed", "looked_up"} =>
        /\ LastListedWins(index.google_id_to_page_id, PageIdentityKey)
        /\ LastListedWins(index.email_to_page_id, PageEmailKey)
        /\ LastListedWins(index.phone_to_page_id, PagePhoneKey)
        /\ LastListedWins(index.name_to_page_id, PageNameKey)

\* two listed pages share a key of each type and all four maps point to the
\* second
C29_Witness ==
    /\ pc = "indexed"
    /\ Len(notion) = 2
    /\ SharedKey(PageIdentityKey)
    /\ SharedKey(PageEmailKey)
    /\ SharedKey(PagePhoneKey)
    /\ SharedKey(PageNameKey)
    /\ \A k \in DOMAIN index.google_id_to_page_id : index.google_id_to_page_id[k] = 2
    /\ \A k \in DOMAIN index.email_to_page_id : index.email_to_page_id[k] = 2
    /\ \A k \in DOMAIN index.phone_to_page_id : index.phone_to_page_id[k] = 2
    /\ \A k \in DOMAIN index.name_to_page_id : index.name_to_page_id[k] = 2

(* ------------------------------------------------------------------ *)
(* One attempt per record                                              *)
(* ------------------------------------------------------------------ *)
\* the per-record calls of the running invocation among ops
RecordCalls(ops) == {k \in ThisPass : calls[k].rec > 0 /\ calls[k].op \in ops}

\* within the phase whose per-record calls are ops: the loop never goes back
\* to an earlier record, no call is repeated for a record, and a failed call
\* is the last one of its record
OneAttempt(ops) ==
    \A k, h \in RecordCalls(ops) :
        k < h =>
            /\ calls[k].rec <= calls[h].rec
            /\ calls[k].rec = calls[h].rec =>
                    /\ calls[k].ok
                    /\ calls[k].op # calls[h].op
                    /\ calls[k].op \in {"get_page", "get_contact"}

\* C30: within sync_from_google and within sync_to_google each record of the
\* fetched list is processed once, in order: no collaborator call is repeated
\* for a record, no call follows a failed call for the same record, every
\* processed record of sync_from_google is counted once as created, updated or
\* failed, and every processed record of sync_to_google at most once.
C30_NoRetry ==
    /\ OneAttempt(Phase2Ops)
    /\ OneAttempt(Phase3Ops)
    /\ pc = "sync_from_google" =>
            google_stats.created + google_stats.updated + Len(google_stats.errors)
                = i - 1
    /\ pc = "sync_to_google" =>
            notion_stats.skipped + notion_stats.updated + Len(notion_stats.errors)
                <= i - 1
    /\ pc = "done" =>
            /\ google_stats.created + google_stats.updated + Len(google_stats.errors)
                    = Len(google_contacts)
            /\ notion_stats.skipped + notion_stats.updated + Len(notion_stats.errors)
                    <= Len(notion_pages)

\* a write failed for the first of two fetched records; the pass went on and
\* finished, and the failed call is the only call made for that record
C30_Witness ==
    /\ pc = "done"
    /\ Len(google_contacts) = 2
    /\ \E k \in RecordCalls(Phase2Ops) :
            /\ ~calls[k].ok
            /\ calls[k].rec = 1
            /\ \A h \in RecordCalls(Phase2Ops) : calls[h].rec = 1 => h <= k
    /\ \E k \in RecordCalls(Phase2Ops) : calls[k].rec = 2 /\ calls[k].ok
    /\ Len(google_stats.errors) = 1

(* ------------------------------------------------------------------ *)
(* The remote client: GoogleContactsClient._request                    *)
(* ------------------------------------------------------------------ *)
\* the request got no response: httpx.HTTPError
NoResponse == 0

\* the status codes the People API answers with in the model
Statuses == {200, 401, 403, 500}

\* the method and endpoint of the call: get_contacts, get_contact, update_contact
Endpoints ==
    {"GET /people/me/connections", "GET /{resource_name}",
     "PATCH /{resource_name}:updateContact"}

GOOGLE_TOKEN_URL == "POST https://oauth2.googleapis.com/token"

\* _request retrying whatever error the first attempt met
ShouldRetry_AnyError(status) == status >= 400

\* _request: if response.status_code == 401
ShouldRetry(status) == status = 401

\* _request: if response.status_code >= 400: raise GoogleAPIError
IsError(status) == status >= 400

\* _request is called: the client is there; a token is needed when none is cached
GoogleRequest ==
    /\ pc = "idle"
    /\ \E endpoint \in Endpoints :
            http' = <<[kind |-> "call", endpoint |-> endpoint, token |-> access_token,
                       status |-> NoResponse]>>
    /\ outcome' = "pending"
    /\ pc' = IF access_token = <<>> THEN "get_access_token" ELSE "attempt_1"
    /\ UNCHANGED <<notion, google, index, runVars, unitVars, cliVars, access_token,
                   page_token, db_props>>

\* _refresh_token, called by _get_access_token or after a 401
RefreshToken ==
    /\ pc \in {"get_access_token", "refresh_and_retry"}
    /\ \/ \* no refresh token configured
          /\ args.settings = "no_refresh_token"
          /\ outcome' = "GoogleAuthError"
          /\ pc' = "idle"
          /\ UNCHANGED <<http, access_token>>
       \/ \* the token endpoint answers 200 with a new access token
          /\ args.settings = "loaded"
          /\ IF access_token = <<>> THEN TRUE ELSE access_token[1] < MaxRefreshes
          /\ access_token' = IF access_token = <<>> THEN <<1>> ELSE <<access_token[1] + 1>>
          /\ http' = Append(http, [kind |-> "refresh", endpoint |-> GOOGLE_TOKEN_URL,
                                   token |-> access_token', status |-> 200])
          /\ pc' = IF pc = "get_access_token" THEN "attempt_1" ELSE "attempt_2"
          /\ UNCHANGED outcome
       \/ \* the token endpoint refuses, or does not answer
          /\ args.settings = "loaded"
          /\ \E status \in {NoResponse, 400} :
                http' = Append(http, [kind |-> "refresh", endpoint |-> GOOGLE_TOKEN_URL,
                                      token |-> access_token, status |-> status])
          /\ outcome' = "GoogleAuthError"
          /\ pc' = "idle"
          /\ UNCHANGED access_token
    /\ UNCHANGED <<notion, google, index, runVars, unitVars, cliVars, page_token,
                   db_props>>

\* client.request(...) with the bearer token, and what _request makes of the
\* response
SendRequest ==
    /\ pc \in {"attempt_1", "attempt_2"}
    /\ \E status \in Statuses \cup {NoResponse} :
        /\ http' = Append(http, [kind |-> "request", endpoint |-> http[1].endpoint,
                                 token |-> access_token, status |-> status])
        /\ IF status = NoResponse
           THEN outcome' = "GoogleAPIError" /\ pc' = "idle"
           ELSE IF pc = "attempt_1" /\ ShouldRetry(status)
           THEN outcome' = outcome /\ pc' = "refresh_and_retry"
           ELSE IF IsError(status)
           THEN outcome' = "GoogleAPIError" /\ pc' = "idle"
           ELSE outcome' = "returned" /\ pc' = "idle"
    /\ UNCHANGED <<notion, google, index, runVars, unitVars, cliVars, access_token,
                   page_token, db_props>>

\* a client just constructed, with or without a configured refresh token
InitClient ==
    /\ pc = "idle"
    /\ args \in {[ArgsFor("full") EXCEPT !.settings = t] :
                    t \in {"loaded", "no_refresh_token"}}
    /\ access_token = <<>>
    /\ http = <<>>
    /\ outcome = "none"
    /\ page_token = <<>>
    /\ db_props = SCHEMA
    /\ exit_code = <<>>
    /\ output = <<>>
    /\ notion = <<>>
    /\ google = <<>>
    /\ index = EmptyIndex
    /\ contact = Contact(<<>>, <<>>, <<>>)
    /\ found = NoPage
    /\ google_contact = Contact(<<>>, <<>>, <<>>)
    /\ notion_contact = Contact(<<>>, <<>>, <<>>)
    /\ merged = Contact(<<>>, <<>>, <<>>)
    /\ mode = "full"
    /\ pass = 1
    /\ today = Today
    /\ google_contacts = <<>>
    /\ notion_pages = <<>>
    /\ i = 1
    /\ google_stats = SyncStats
    /\ notion_stats = SyncStats
    /\ calls = <<>>
    /\ failures = 0
    /\ before = [notion |-> <<>>, google |-> <<>>]

NextClient == GoogleRequest \/ RefreshToken \/ SendRequest

SpecClient == InitClient /\ [][NextClient]_vars

\* the positions in the log of the running call of the exchanges of one kind
Exchanges(kind) == {k \in DOMAIN http : http[k].kind = kind}

\* C31: one _request call sends at most two API requests; a second one, for
\* the same method and endpoint, only
\* after the first was answered 401 and exactly one token refresh succeeded in
\* between, and with the refreshed token; a call whose last response has a
\* status of 400 or more, a second 401 included, raises GoogleAPIError and one
\* with a lower status returns; a cached token is sent as it is, without a
\* refresh before the first request.
C31_AtMostOneRetryAfter401 ==
    LET requests == Exchanges("request")
        refreshes == Exchanges("refresh")
        ended == pc = "idle" /\ http # <<>>
    IN  /\ Cardinality(requests) <= 2
        /\ \A k, h \in requests :
                k < h =>
                    /\ http[k].status = 401
                    /\ {r \in refreshes : k < r /\ r < h} = {h - 1}
                    /\ http[h - 1].status = 200
                    /\ http[h].token = http[h - 1].token
                    /\ http[h].endpoint = http[k].endpoint
                    /\ http[h].token # http[k].token
        /\ (ended /\ http[Len(http)].kind = "request") =>
                IF http[Len(http)].status >= 400 \/ http[Len(http)].status = NoResponse
                THEN outcome = "GoogleAPIError"
                ELSE outcome = "returned"
        /\ outcome = "returned" =>
                http[Len(http)].kind = "request" /\ http[Len(http)].status = 200
        /\ (http # <<>> /\ http[1].token # <<>>) =>
                /\ Len(http) >= 2 => (http[2].kind = "request"
                                        /\ http[2].token = http[1].token)
                /\ \A r \in refreshes : \E k \in requests : k < r /\ http[k].status = 401

\* a call found a cached token, was answered 401, refreshed once, and was
\* answered 401 again: it raised after two requests
C31_Witness ==
    /\ pc = "idle"
    /\ Len(http) = 4
    /\ http[1].token # <<>>
    /\ http[2].kind = "request" /\ http[2].status = 401
    /\ http[3].kind = "refresh" /\ http[3].status = 200
    /\ http[4].kind = "request" /\ http[4].status = 401
    /\ outcome = "GoogleAPIError"

(* ------------------------------------------------------------------ *)
(* A canonical record serialised for the remote service and parsed     *)
(* back: Contact.from_google_api(contact.to_google_person())           *)
(* ------------------------------------------------------------------ *)
\* the records converted: every remote-visible field empty or filled but for
\* one, with either side's values, the suppress-birthday flag clear or set
RoundTripInputs ==
    {[r EXCEPT !.hide_birthday = hide] :
        r \in MergeInputs("g") \cup MergeInputs("n"), hide \in BOOLEAN}

InitRoundTrip ==
    /\ notion_contact \in RoundTripInputs
    /\ google_contact = Contact(<<>>, <<>>, <<>>)
    /\ merged = Contact(<<>>, <<>>, <<>>)
    /\ pc = "start"
    /\ notion = <<>>
    /\ google = <<>>
    /\ index = EmptyIndex
    /\ contact = Contact(<<>>, <<>>, <<>>)
    /\ found = NoPage
    /\ InitRun

\* person = contact.to_google_person(); Contact.from_google_api(person)
RoundTrip ==
    /\ pc = "start"
    /\ google_contact' = from_google_api(to_google_person(notion_contact))
    /\ pc' = "parsed"
    /\ UNCHANGED <<notion, google, index, runVars, contact, found, notion_contact, merged>>
    /\ UNCHANGED <<cliVars, adapterVars>>

NextRoundTrip == RoundTrip

SpecRoundTrip == InitRoundTrip /\ [][NextRoundTrip]_vars

\* two values of one field are the same when they are equal or both empty
\* (None and the empty string both stand for a field without a value)
SameOrBothEmpty(a, b) == a = b \/ (~Truthy(a) /\ ~Truthy(b))

\* C32 as stated: for every canonical record with the suppress-birthday flag
\* unset, parsing the output of to_google_person yields the same given name,
\* family name, company, title, department, primary and secondary email,
\* primary and secondary phone, birth date, address and website.
C32_RoundTripIsLossless ==
    (pc = "parsed" /\ ~notion_contact.hide_birthday) =>
        \A f \in RemoteFields :
            IF f = "birthday"
            THEN google_contact[f] = notion_contact[f]
            ELSE SameOrBothEmpty(google_contact[f], notion_contact[f])

\* what does hold: the fields other than the second email and phone slots
\* come back, and the filled emails (phones) come back in order, packed into
\* the first slots
C32_RoundTripKeepsOrderNotSlots ==
    (pc = "parsed" /\ ~notion_contact.hide_birthday) =>
        LET c == notion_contact
            d == google_contact
            filled(a, b) ==
                (IF Truthy(a) THEN <<a>> ELSE <<>>) \o (IF Truthy(b) THEN <<b>> ELSE <<>>)
        IN  /\ \A f \in RemoteFields \ {"birthday", "primary_email", "secondary_email",
                                        "primary_phone", "secondary_phone"} :
                    SameOrBothEmpty(d[f], c[f])
            /\ d.birthday = c.birthday
            /\ filled(d.primary_email, d.secondary_email)
                    = filled(c.primary_email, c.secondary_email)
            /\ filled(d.primary_phone, d.secondary_phone)
                    = filled(c.primary_phone, c.secondary_phone)

\* a record holding a second email and no first one has been converted: the
\* address came back in the first slot
C32_SecondaryOnlyShifts ==
    /\ pc = "parsed"
    /\ ~notion_contact.hide_birthday
    /\ ~Truthy(notion_contact.primary_email)
    /\ Truthy(notion_contact.secondary_email)
    /\ google_contact.primary_email = notion_contact.secondary_email
    /\ google_contact.secondary_email = None

(* ------------------------------------------------------------------ *)
(* full_sync with get_contacts listing the address book page by page   *)
(* ------------------------------------------------------------------ *)
\* the persons the service has served when it hands out page token t
Offset(t) == IF t = <<>> THEN 0 ELSE t[1]

\* sync_from_google up to get_contacts' loop: stats = SyncStats(),
\* contacts = [], page_token = None
SyncFromGoogleStart ==
    /\ pc = "initialized"
    /\ mode \in {"full", "google_only"}
    /\ google_stats' = SyncStats
    /\ google_contacts' = <<>>
    /\ page_token' = <<>>
    /\ pc' = "get_contacts"
    /\ UNCHANGED <<notion, google, index, mode, pass, today, notion_pages, i,
                   notion_stats, calls, failures, before, unitVars>>
    /\ UNCHANGED <<cliVars, access_token, http, outcome, db_props>>

\* get_contacts whose loop asks for the same page again when the response
\* carries no nextPageToken
GetContactsRequest_NoBreak ==
    /\ pc = "get_contacts"
    /\ \/ \E n \in 0..(Len(google) - Offset(page_token)) :
            /\ google_contacts' = google_contacts
                    \o [k \in 1..n |-> from_google_api(google[Offset(page_token) + k])]
            /\ page_token' = <<Offset(page_token) + n>>
            /\ UNCHANGED <<pc, calls, failures>>
       \/ /\ failures < MaxFailures
          /\ calls' = Append(calls, Call("get_contacts", 0, NoPage, <<>>, FALSE, NoRequest))
          /\ pc' = "raised"
          /\ failures' = failures + 1
          /\ UNCHANGED <<google_contacts, page_token>>
    /\ i' = 1
    /\ UNCHANGED <<notion, google, index, mode, pass, today, notion_pages,
                   google_stats, notion_stats, before, unitVars>>
    /\ UNCHANGED <<cliVars, access_token, http, outcome, db_props>>

\* one iteration of get_contacts' "while True": the request raises, or the
\* service answers with the next n persons, parsed and appended, and with or
\* without a nextPageToken; without one the loop breaks and the list is returned
GetContactsRequest ==
    /\ pc = "get_contacts"
    /\ \/ \E n \in 0..(Len(google) - Offset(page_token)), more \in BOOLEAN :
            /\ google_contacts' = google_contacts
                    \o [k \in 1..n |-> from_google_api(google[Offset(page_token) + k])]
            /\ page_token' = IF more THEN <<Offset(page_token) + n>> ELSE <<>>
            /\ IF more
               THEN UNCHANGED <<pc, calls>>
               ELSE /\ pc' = "sync_from_google"
                    /\ calls' = Append(calls,
                            Call("get_contacts", 0, NoPage, <<>>, TRUE, NoRequest))
            /\ UNCHANGED failures
       \/ /\ failures < MaxFailures
          /\ calls' = Append(calls, Call("get_contacts", 0, NoPage, <<>>, FALSE, NoRequest))
          /\ pc' = "raised"
          /\ failures' = failures + 1
          /\ UNCHANGED <<google_contacts, page_token>>
    /\ i' = 1
    /\ UNCHANGED <<notion, google, index, mode, pass, today, notion_pages,
                   google_stats, notion_stats, before, unitVars>>
    /\ UNCHANGED <<cliVars, access_token, http, outcome, db_props>>

NextPaged ==
    \/ Initialize
    \/ SyncFromGoogleStart
    \/ GetContactsRequest
    \/ SyncFromGoogleRecord
    \/ SyncFromGoogleReturn
    \/ SyncToGoogleFetch
    \/ SyncToGoogleRecord
    \/ SyncToGoogleReturn

\* every collaborator call returns or fails, so every step of full_sync that
\* can be taken is taken; the listing eventually answers with a page without a
\* nextPageToken
FairPaged ==
    /\ WF_vars(Initialize)
    /\ WF_vars(SyncFromGoogleStart)
    /\ WF_vars(GetContactsRequest /\ pc' = "sync_from_google")
    /\ WF_vars(SyncFromGoogleRecord)
    /\ WF_vars(SyncFromGoogleReturn)
    /\ WF_vars(SyncToGoogleFetch)
    /\ WF_vars(SyncToGoogleRecord)
    /\ WF_vars(SyncToGoogleReturn)

SpecPaged == InitRebuild /\ [][NextPaged]_vars /\ FairPaged

\* the fetched records of both phases have each been processed once: both
\* loops are past their last record, no call was repeated, every record of
\* phase 2 made a call and is counted, every record of phase 3 with an
\* identity key made a call and every other one is counted as skipped
EachProcessedOnce ==
    /\ i > Len(notion_pages)
    /\ OneAttempt(Phase2Ops)
    /\ OneAttempt(Phase3Ops)
    /\ google_stats.created + google_stats.updated + Len(google_stats.errors)
            = Len(google_contacts)
    /\ \A r \in DOMAIN google_contacts :
            \E k \in RecordCalls({"update_page", "create_page", "get_page"}) :
                calls[k].rec = r
    /\ \A r \in DOMAIN notion_pages :
            HasGoogleID(from_notion_page(notion_pages[r])) =>
                \E k \in RecordCalls(Phase3Ops) : calls[k].rec = r
    /\ notion_stats.skipped
            = Cardinality({r \in DOMAIN notion_pages :
                                ~HasGoogleID(from_notion_page(notion_pages[r]))})

\* full_sync raised what a listing call raised: initialize's or
\* sync_to_google's query of the database, or get_contacts
ListingRaised ==
    /\ pc = "raised"
    /\ calls # <<>>
    /\ calls[Len(calls)].op \in {"query_database_all", "get_contacts"}
    /\ ~calls[Len(calls)].ok

\* C33 as stated: provided every collaborator call eventually returns or
\* fails and the listing eventually returns a page without a next-page token,
\* full_sync eventually returns the pair of phase statistics after processing
\* each fetched record of each phase exactly once.
C33_EventuallyReturnsStatistics ==
    <>(pc = "done" /\ EachProcessedOnce)

\* C33 amended: under the same provisos full_sync terminates: it eventually
\* returns the pair of phase statistics after processing each fetched record
\* of each phase exactly once, or raises the failure of one of its listing
\* calls.
C33_TerminatesReturningOrRaising ==
    <>((pc = "done" /\ EachProcessedOnce) \/ ListingRaised)

\* full_sync returned after the listing took a second request to end and a
\* per-record call failed: both fetched records and the page were processed
C33_Witness ==
    /\ pc = "done"
    /\ Len(google_contacts) = 2
    /\ Len(notion_pages) >= 1
    /\ failures = 1
    /\ EachProcessedOnce

\* the listing is between two requests, one person served and a page token held
C33_ListingInProgress ==
    /\ pc = "get_contacts"
    /\ page_token = <<1>>
    /\ Len(google_contacts) = 1

(* ------------------------------------------------------------------ *)
(* The init-schema command                                             *)
(* ------------------------------------------------------------------ *)
\* init_schema sending the whole schema
missing_props_All(existing_props) == SCHEMA

\* missing_props = {k: v for k, v in SCHEMA.items() if k not in existing_props}
missing_props(existing_props) ==
    [k \in {k \in DOMAIN SCHEMA : k \notin existing_props} |-> SCHEMA[k]]

\* the database service's update of a database: each property of the request
\* is added with the request's type, or set to it if the database has it
update_database(db, properties) ==
    [k \in DOMAIN db \cup DOMAIN properties |->
        IF k \in DOMAIN properties THEN properties[k] ELSE db[k]]

\* init_schema, from its invocation to its exit
InitSchemaCommand ==
    /\ pc = "invoked"
    /\ LET existing_props == DOMAIN db_props
           missing == missing_props(existing_props)
           get(ok) == Call("get_database", 0, NoPage, <<>>, ok, <<>>)
           update(ok) == Call("update_database", 0, NoPage, <<>>, ok, missing)
       IN  \/ \* settings is None
              /\ args.settings = "error"
              /\ output' = output \o <<Echo("Error loading settings")>>
              /\ exit_code' = <<1>>
              /\ UNCHANGED <<db_props, calls, failures>>
           \/ \* get_database raises
              /\ args.settings # "error"
              /\ failures < MaxFailures
              /\ failures' = failures + 1
              /\ calls' = Append(calls, get(FALSE))
              /\ output' = output \o <<Echo("Fetching database schema"), Echo("Error")>>
              /\ exit_code' = <<1>>
              /\ UNCHANGED db_props
           \/ \* if not missing_props: return
              /\ args.settings # "error"
              /\ DOMAIN missing = {}
              /\ calls' = Append(calls, get(TRUE))
              /\ output' = output \o <<Echo("Fetching database schema"),
                                       Echo("Found existing properties"),
                                       Echo("All properties already exist")>>
              /\ exit_code' = <<0>>
              /\ UNCHANGED <<db_props, failures>>
           \/ \* update_database raises
              /\ args.settings # "error"
              /\ DOMAIN missing # {}
              /\ failures < MaxFailures
              /\ failures' = failures + 1
              /\ calls' = calls \o <<get(TRUE), update(FALSE)>>
              /\ output' = output \o <<Echo("Fetching database schema"),
                                       Echo("Found existing properties"),
                                       Echo("Adding missing properties"),
                                       Echo("Error")>>
              /\ exit_code' = <<1>>
              /\ UNCHANGED db_props
           \/ \* the missing properties are added
              /\ args.settings # "error"
              /\ DOMAIN missing # {}
              /\ db_props' = update_database(db_props, missing)
              /\ calls' = calls \o <<get(TRUE), update(TRUE)>>
              /\ output' = output \o <<Echo("Fetching database schema"),
                                       Echo("Found existing properties"),
                                       Echo("Adding missing properties"),
                                       Echo("Schema initialized successfully")>>
              /\ exit_code' = <<0>>
              /\ UNCHANGED failures
    /\ pc' = "exited"
    /\ UNCHANGED <<notion, google, index, mode, pass, today, google_contacts,
                   notion_pages, i, google_stats, notion_stats, before, unitVars, args>>
    /\ UNCHANGED <<access_token, http, outcome, page_token>>

\* the command is run again right away
InitSchemaAgain ==
    /\ pc = "exited"
    /\ pass < MaxPasses
    /\ pass' = pass + 1
    /\ pc' = "invoked"
    /\ exit_code' = <<>>
    /\ output' = <<>>
    /\ UNCHANGED <<notion, google, index, mode, today, google_contacts, notion_pages,
                   i, google_stats, notion_stats, calls, failures, before, unitVars,
                   args>>
    /\ UNCHANGED adapterVars

\* properties somebody may have removed from the database, or never added
SampleProps == {"First Name", "Tags", "Google ID", "Last Synced"}

\* the databases init-schema is run on: the schema without some of the sample
\* properties, the Tags property possibly of another type, possibly with a
\* property the schema does not know
Databases ==
    {[k \in (DOMAIN SCHEMA \ gone) \cup extra |->
            IF k \notin DOMAIN SCHEMA THEN "rich_text"
            ELSE IF k = "Tags" THEN tags
            ELSE SCHEMA[k]] :
        gone \in SUBSET SampleProps, extra \in {{}, {"Name"}},
        tags \in {"multi_select", "rich_text"}}

InitSchema ==
    /\ pc = "invoked"
    /\ args \in {[ArgsFor("full") EXCEPT !.settings = t] : t \in {"loaded", "error"}}
    /\ db_props \in Databases
    /\ access_token = <<>>
    /\ http = <<>>
    /\ outcome = "none"
    /\ page_token = <<>>
    /\ exit_code = <<>>
    /\ output = <<>>
    /\ notion = <<>>
    /\ google = <<>>
    /\ index = EmptyIndex
    /\ contact = Contact(<<>>, <<>>, <<>>)
    /\ found = NoPage
    /\ google_contact = Contact(<<>>, <<>>, <<>>)
    /\ notion_contact = Contact(<<>>, <<>>, <<>>)
    /\ merged = Contact(<<>>, <<>>, <<>>)
    /\ mode = "full"
    /\ pass = 1
    /\ today = Today
    /\ google_contacts = <<>>
    /\ notion_pages = <<>>
    /\ i = 1
    /\ google_stats = SyncStats
    /\ notion_stats = SyncStats
    /\ calls = <<>>
    /\ failures = 0
    /\ before = [notion |-> <<>>, google |-> <<>>]

NextSchema ==
    \/ InitSchemaCommand
    \/ InitSchemaAgain

SpecSchema == InitSchema /\ [][NextSchema]_vars

\* the update_database calls among the calls made from position n on
UpdatesFrom(cs, n) == {k \in n..Len(cs) : cs[k].op = "update_database"}

\* C34: init-schema only adds missing properties and is idempotent: the
\* update_database call it issues contains exactly the schema properties absent
\* from the database, each with its schema type, and never an existing one;
\* when no property is missing it issues no update and changes nothing; the
\* properties the database has keep their types; after a successful update no
\* schema property is missing, so a second run right after a successful first
\* run issues no update and makes no change.
C34_InitSchemaAddsOnlyMissing ==
    [][ LET absent == DOMAIN SCHEMA \ DOMAIN db_props
            issued == UpdatesFrom(calls', Len(calls) + 1)
        IN  /\ \A k \in issued :
                    /\ DOMAIN calls'[k].request = absent
                    /\ \A q \in absent : calls'[k].request[q] = SCHEMA[q]
                    /\ absent # {}
                    /\ calls'[k].ok => DOMAIN SCHEMA \subseteq DOMAIN db_props'
            /\ Cardinality(issued) <= 1
            /\ absent = {} => (issued = {} /\ db_props' = db_props)
            /\ issued = {} => db_props' = db_props
            /\ \A q \in DOMAIN db_props :
                    q \in DOMAIN db_props' /\ db_props'[q] = db_props[q]
            /\ DOMAIN db_props' \subseteq DOMAIN db_props \cup absent
            /\ (pass' = 2 /\ \E k \in UpdatesFrom(calls', 1) :
                                calls'[k].ok /\ calls'[k].pass = 1) =>
                    /\ \A k \in UpdatesFrom(calls', 1) : calls'[k].pass = 1
                    /\ (pc = "invoked" /\ pass = 2) => db_props' = db_props
      ]_vars

\* a first run added two missing properties to a database whose Tags property
\* has another type; the second run found nothing missing and issued no update
C34_Witness ==
    /\ pc = "exited"
    /\ pass = 2
    /\ exit_code = <<0>>
    /\ Len(calls) = 3
    /\ calls[1].op = "get_database" /\ calls[1].ok
    /\ calls[2].op = "update_database" /\ calls[2].ok
    /\ DOMAIN calls[2].request = {"First Name", "Google ID"}
    /\ calls[3].op = "get_database" /\ calls[3].ok /\ calls[3].pass = 2
    /\ db_props["Tags"] = "rich_text"
    /\ "Name" \in DOMAIN db_props
    /\ DOMAIN SCHEMA \subseteq DOMAIN db_props

(* ------------------------------------------------------------------ *)
(* The counters of sync_from_google against the calls it made          *)
(* ------------------------------------------------------------------ *)
\* the calls of the running invocation with operation op that returned
Succeeded(op) == {k \in ThisPass : calls[k].op = op /\ calls[k].ok}

\* the database writes of the running invocation attempted for record r
WritesFor(r) ==
    {k \in ThisPass : calls[k].rec = r /\ calls[k].op \in {"create_page", "update_page"}}

\* C35: at the end of a phase-2 pass, created + updated + the number of
\* recorded errors equals the number of incoming remote records, skipped is 0,
\* created equals the number of successful create_page calls, updated the
\* number of successful update_page calls, and each incoming record triggered
\* at most one database write.
C35_CountersMatchCalls ==
    pc = "done" =>
        /\ google_stats.created + google_stats.updated + Len(google_stats.errors)
                = Len(google_contacts)
        /\ Len(google_contacts) = Len(google)
        /\ google_stats.skipped = 0
        /\ google_stats.created = Cardinality(Succeeded("create_page"))
        /\ google_stats.updated = Cardinality(Succeeded("update_page"))
        /\ \A r \in DOMAIN google_contacts : Cardinality(WritesFor(r)) <= 1

\* a pass over two incoming records has ended: one was written, the write of
\* the other failed
C35_Witness ==
    /\ pc = "done"
    /\ mode = "google_only"
    /\ Len(google_contacts) = 2
    /\ google_stats.created + google_stats.updated = 1
    /\ Len(google_stats.errors) = 1
    /\ \E r \in DOMAIN google_contacts :
            \E k \in WritesFor(r) : ~calls[k].ok

(* ------------------------------------------------------------------ *)
(* What each phase of full_sync writes to                              *)
(* ------------------------------------------------------------------ *)
\* the positions of the calls a step adds to the log
Issued(before_step, after_step) == (Len(before_step) + 1)..Len(after_step)

DatabaseWriteOps == {"create_page", "update_page"}
RemoteOps == {"get_contacts", "get_contact", "update_contact"}

\* C36: each phase writes only to its target side: a step of sync_from_google
\* leaves the address book as it is and issues no update_contact; a step of
\* sync_to_google leaves the database as it is and issues no create_page or
\* update_page; no step adds or removes a remote contact or issues a remote
\* call other than get_contacts, get_contact and update_contact; and every
\* update_contact is addressed to the identity key of the database record of
\* the fetched listing it is issued for.
C36_EachPhaseWritesItsTarget ==
    [][ LET new == Issued(calls, calls')
        IN  /\ pc \in {"start", "initialized", "sync_from_google"}
                    /\ ~(pc = "initialized" /\ mode = "notion_only") =>
                    /\ google' = google
                    /\ \A k \in new : calls'[k].op # "update_contact"
            /\ pc \in {"from_google_returned", "sync_to_google"} =>
                    /\ notion' = notion
                    /\ \A k \in new : calls'[k].op \notin DatabaseWriteOps
            /\ Len(google') = Len(google)
            /\ \A p \in DOMAIN google : google'[p].resourceName = google[p].resourceName
            /\ \A k \in new :
                    /\ calls'[k].op \in RemoteOps \cup DatabaseWriteOps
                                        \cup {"query_database_all", "get_page"}
                    /\ calls'[k].op = "update_contact" =>
                        /\ pc = "sync_to_google"
                        /\ calls'[k].rec = i
                        /\ notion_pages[i].GoogleID # <<>>
                        /\ calls'[k].request.resource_name
                                = from_notion_page(notion_pages[i]).google_id
                        /\ \E p \in DOMAIN google :
                                google[p].resourceName = calls'[k].request.resource_name
            /\ google' # google =>
                    \E k \in new : calls'[k].op = "update_contact" /\ calls'[k].ok
      ]_vars

\* full_sync has returned after phase 2 created a page and phase 3 updated a
\* remote record: both sides changed, the address book has the same contacts
C36_Witness ==
    /\ pc = "done"
    /\ mode = "full"
    /\ \E k \in ThisPass : calls[k].op = "create_page" /\ calls[k].ok
    /\ \E k \in ThisPass : calls[k].op = "update_contact" /\ calls[k].ok
    /\ google # before.google
    /\ Len(notion) > Len(before.notion)
    /\ Len(google) = Len(before.google)
    /\ \A p \in DOMAIN google : google[p].resourceName = before.google[p].resourceName

(* ------------------------------------------------------------------ *)
(* The identity key of a written record in the index                   *)
(* ------------------------------------------------------------------ *)
\* the successful database writes of the running invocation for record r
WrittenFor(r) == {k \in WritesFor(r) : calls[k].ok}

\* C37: after sync_contact_to_notion succeeded for an incoming record with a
\* non-empty identity key, whether it created a page or updated one (matched by
\* the key or through the email, phone or name fallback), the index maps the
\* key to the page it returned; so during and after a phase-2 pass every
\* successfully processed incoming record with an identity key is found by it.
C37_WrittenRecordIsIndexedByKey ==
    pc \in {"sync_from_google", "done"} =>
        \A r \in 1..(i - 1) : \A k \in WrittenFor(r) :
            Truthy(google_contacts[r].google_id) =>
                /\ google_contacts[r].google_id \in DOMAIN index.google_id_to_page_id
                /\ index.google_id_to_page_id[google_contacts[r].google_id]
                        = calls[k].page

\* the pass has ended; an incoming record with an identity key was matched
\* through a fallback to a page entered by hand, without a Google ID, and
\* updated it; another record was created; the index maps both keys
C37_Witness ==
    /\ pc = "done"
    /\ \E r \in DOMAIN google_contacts : \E k \in WrittenFor(r) :
            /\ calls[k].op = "update_page"
            /\ calls[k].page \in DOMAIN before.notion
            /\ before.notion[calls[k].page].GoogleID = <<>>
            /\ Truthy(google_contacts[r].google_id)
            /\ Get(index.google_id_to_page_id, google_contacts[r].google_id)
                    = calls[k].page
    /\ \E r \in DOMAIN google_contacts : \E k \in WrittenFor(r) :
            /\ calls[k].op = "create_page"
            /\ Get(index.google_id_to_page_id, google_contacts[r].google_id)
                    = calls[k].page

====
